---- MODULE Spec2Model ----
(***************************************************************************)
(* Inventory layer of rgb-std (src/persistence/inventory.rs).              *)
(*                                                                         *)
(*   SpecConsume : Inventory::consume, the ingestion of a fascia           *)
(*   SpecCompose : Inventory::compose_deterministic, the composition of a  *)
(*                 batch of state transitions from an invoice              *)
(*                                                                         *)
(* The storage port (consume_witness, consume_bundle, state_for_outpoints, *)
(* contracts_by_outputs, contract_suppl, ...) and the transition builder   *)
(* are trait methods / types declared outside inventory.rs; they are       *)
(* modelled from their documented behaviour.                               *)
(***************************************************************************)
EXTENDS Integers, Sequences, FiniteSets, TLC

VARIABLES
    \* ---- inventory storage (mutated by consume only) ----
    witnesses,      \* set of SealWitness records stored by consume_witness
    bundles,        \* set of stored bundle records, one per bundle id
    \* ---- one call of consume ----
    cpc,            \* "idle" | "bundles" | "done"
    fascia,         \* the fascia being consumed
    todo,           \* contract ids of fascia.bundles still to visit, in order
    cres,           \* result of the last consume call
    pre,            \* storage at the moment consume was called
    nconsumes,      \* number of consume calls made so far
    \* ---- inventory storage read by compose ----
    state,          \* set of known state items (assignments with their seal)
    \* ---- one call of compose_deterministic ----
    ppc,            \* position in compose_deterministic
    prev_outputs,   \* argument: the set of candidate previous outputs
    invoice,        \* argument: the invoice, fields filled in as they are read
    beneficiary_vout, \* argument: Option<Vout>
    assignment_id,  \* local: the target assignment type
    beneficiary,    \* local: the beneficiary's BuilderSeal
    main_builder,   \* local: the builder of the main transition
    main_inputs,    \* local: Vec<XOutputSeal>
    sum_inputs,     \* local: Amount
    data_inputs,    \* local: Vec of data values
    queue,          \* local: items the running for loop has still to visit
    main_transition, \* local: the completed main transition
    spent_state,    \* local: HashMap contract id -> state items, as a set of items
    blank_id,       \* local: the contract the running blank transition is for
    blank_builder,  \* local: builder of the running blank transition
    blank_outputs,  \* local: `outputs` of the running blank transition
    blanks,         \* local: the blank transitions built so far
    pres,           \* result of compose_deterministic
    lookups,        \* storage lookups made, in order
    alloc_calls,    \* allocator invocations, in order
    blind_calls,    \* blinding callback invocations, in order
    \* ---- a caller that composes twice ----
    first,          \* arguments and result of the first of two compose calls
    \* ---- the history of one contract, as consign reads it from storage ----
    stash,          \* operations, bundles and witnesses the inventory knows
    \* ---- one call of export_contract or transfer, and of consign within it ----
    gpc,            \* position in consign
    entry,          \* the entry point called: "export_contract" | "transfer"
    consign_outputs, \* argument of consign: the list `outputs` of output seals
    secret_seals,   \* argument of consign: list of secret seals
    opouts,         \* local: the collected outputs the for loop has still to visit
    bundled_witnesses, \* local: BTreeMap<BundleId, BundledWitness>
    transitions,    \* local: BTreeMap<OpId, Transition>, as the set of its keys
    terminals,      \* local: BTreeMap<BundleId, Terminal>
    ids,            \* local: the worklist of operation ids
    gres,           \* result of consign
    eres,           \* result of the entry point
    gfirst,         \* arguments and result of the first of two consign calls
    \* ---- a failure on its way to the caller of an inventory operation ----
    epc,            \* "idle" | "failed" | "returned"
    errs,           \* the error as raised, and after each conversion since
    \* ---- a contract under the RGB25 interface ----
    global,         \* the contract's global state: field name -> values
    ires            \* the last call made through the interface, with its result

consumeVars == <<witnesses, bundles, cpc, fascia, todo, cres, pre, nconsumes>>

composeArgs == <<prev_outputs, invoice, beneficiary_vout>>
composeMain == <<assignment_id, beneficiary, main_builder, main_inputs, sum_inputs,
                 data_inputs, queue, main_transition>>
composeBlank == <<spent_state, blank_id, blank_builder, blank_outputs, blanks>>
composeLog == <<lookups, alloc_calls, blind_calls>>
composeVars == <<state, ppc, composeArgs, composeMain, composeBlank, pres, composeLog>>

recomposeVars == <<first>>

consignVars == <<stash, gpc, entry, consign_outputs, secret_seals, opouts, bundled_witnesses,
                 transitions, terminals, ids, gres, eres, gfirst>>

\* the variables neither consume nor compose touches
errorVars == <<epc, errs>>

ifaceVars == <<global, ires>>

otherVars == <<recomposeVars, consignVars, errorVars, ifaceVars>>

vars == <<consumeVars, composeVars, otherVars>>

(***************************************************************************)
(* Bounds of the model                                                     *)
(***************************************************************************)
MaxConsumes == 2        \* consume calls per behaviour
MaxItems == 3           \* state items known to the inventory
MaxAmount == 2          \* largest amount an invoice asks for
MaxConcealed == 1       \* assignments whose seal the stash knows only concealed

(***************************************************************************)
(* Identifiers                                                             *)
(***************************************************************************)
ContractIds == {1, 2, 3}
WitnessIds  == {1, 2}
OpIds       == {1, 2}

\* contracts a fascia brings bundles for
FasciaContracts == {1, 2}

None == [some |-> FALSE]
Some(v) == [some |-> TRUE, v |-> v]

\* Sequence of the elements of a set of integers in increasing order
\* (iteration order of a BTreeMap / BTreeSet keyed by these integers).
RECURSIVE SortedSeq(_)
SortedSeq(S) ==
    IF S = {} THEN << >>
    ELSE LET m == CHOOSE x \in S : \A y \in S : x <= y
         IN  <<m>> \o SortedSeq(S \ {m})

(***************************************************************************)
(* Transition bundles.  input_map : Opout -> OpId is a set of pairs with   *)
(* distinct first components; known_transitions is the set of its keys     *)
(* (an operation id determines the transition).                            *)
(***************************************************************************)
InputMaps ==
    { {<<1, 1>>}, {<<1, 1>>, <<2, 2>>} }

TransitionBundles ==
    [input_map : InputMaps, known_transitions : SUBSET OpIds]

\* TransitionBundle::bundle_id: the commitment to the input map; it does not
\* depend on which transitions are revealed.
bundle_id(bundle) == bundle.input_map

input_map_values(bundle) == { p[2] : p \in bundle.input_map }

\* Fascia: witness id, anchor, and at most one bundle per contract id.
\* A bundle belongs to one contract: the bundles of a fascia have different ids.
Fascias ==
    { f \in [witness_id : WitnessIds,
             anchor     : {"anchor"},
             bundles    : [FasciaContracts -> {None} \cup {Some(b) : b \in TransitionBundles}]] :
        \A c, d \in FasciaContracts :
            (c # d /\ f.bundles[c].some /\ f.bundles[d].some)
                => bundle_id(f.bundles[c].v) # bundle_id(f.bundles[d].v) }

NoFascia == [witness_id |-> 1, anchor |-> "anchor", bundles |-> [c \in FasciaContracts |-> None]]

fascia_contracts(f) == { c \in FasciaContracts : f.bundles[c].some }

\* Fascia::into_bundles: the (contract id, bundle) pairs in contract-id order
into_bundles(f) == SortedSeq(fascia_contracts(f))

SealWitness(witness_id, anchor) == [witness_id |-> witness_id, anchor |-> anchor]

(***************************************************************************)
(* Storage port, mutating half                                             *)
(***************************************************************************)
\* consume_witness: record the witness with its anchor
consume_witness(ws, witness) == ws \cup {witness}

\* faulty variant: the stored bundle is replaced by the one consumed
consume_bundle_Replace(bs, contract_id, bundle, witness_id) ==
    { s \in bs : s.bundle_id # bundle_id(bundle) }
        \cup {[bundle_id         |-> bundle_id(bundle),
                contract_id       |-> contract_id,
                witness_id        |-> witness_id,
                known_transitions |-> bundle.known_transitions]}

\* consume_bundle: fold the bundle into the stored bundle of the same id by
\* merge-reveal: revealed transitions are added, nothing known is replaced.
consume_bundle(bs, contract_id, bundle, witness_id) ==
    LET id == bundle_id(bundle)
    IN  IF \E s \in bs : s.bundle_id = id
        THEN { IF s.bundle_id = id
               THEN [s EXCEPT !.known_transitions = @ \cup bundle.known_transitions]
               ELSE s : s \in bs }
        ELSE bs \cup {[bundle_id         |-> id,
                       contract_id       |-> contract_id,
                       witness_id        |-> witness_id,
                       known_transitions |-> bundle.known_transitions]}

(***************************************************************************)
(* Inventory::consume                                                      *)
(***************************************************************************)
Ok == [tag |-> "Ok"]
ErrConnectivity == [tag |-> "Connectivity"]
ErrInvalidBundle(contract_id, bid) ==
    [tag |-> "InvalidBundle", contract_id |-> contract_id, bundle_id |-> bid]

\* the variant of InventoryError an error of consume is returned in: a
\* ConsumeError is turned into InventoryError::Consume by the into() of the
\* return; an error of the storage port is an InventoryError as it is
InventoryError_variant(e) ==
    IF e.tag = "InvalidBundle" THEN "Consume" ELSE e.tag

\* faulty variant: the check is left out
BundleCheck_Omitted(bundle) == TRUE

\* faulty variant: the inclusion taken the wrong way round
BundleCheck_Reversed(bundle) ==
    input_map_values(bundle) \subseteq bundle.known_transitions

\* the consistency check of consume: known_transitions.keys() is a subset of
\* input_map.values()
BundleCheck(bundle) ==
    LET ids1 == bundle.known_transitions
        ids2 == input_map_values(bundle)
    IN  ids1 \subseteq ids2

\* faulty variant: the anchor is not recorded before the loop over the bundles
record_anchor_Later(ws, f) == ws

\* the first statements of consume: the witness of the fascia is recorded
\* with its anchor
record_anchor(ws, f) == consume_witness(ws, SealWitness(f.witness_id, f.anchor))

\* consume, up to and including the call of consume_witness
ConsumeCall ==
    /\ cpc = "idle"
    /\ nconsumes < MaxConsumes
    /\ \E f \in Fascias, ok \in BOOLEAN :
        /\ fascia' = f
        /\ pre' = [witnesses |-> witnesses, bundles |-> bundles]
        /\ nconsumes' = nconsumes + 1
        /\ IF ok
           THEN /\ witnesses' = record_anchor(witnesses, f)
                /\ todo' = into_bundles(f)
                /\ cpc' = "bundles"
                /\ cres' = None
           ELSE /\ cres' = Some(ErrConnectivity)
                /\ cpc' = "done"
                /\ UNCHANGED <<witnesses, todo>>
    /\ UNCHANGED <<bundles, composeVars, otherVars>>

\* one iteration of the loop over fascia.into_bundles()
ConsumeBundle ==
    /\ cpc = "bundles"
    /\ todo # << >>
    /\ LET contract_id == Head(todo)
           bundle      == fascia.bundles[contract_id].v
       IN  IF ~BundleCheck(bundle)
           THEN /\ cres' = Some(ErrInvalidBundle(contract_id, bundle_id(bundle)))
                /\ cpc' = "done"
                /\ UNCHANGED <<bundles, todo>>
           ELSE \E ok \in BOOLEAN :
                IF ok
                THEN /\ bundles' = consume_bundle(bundles, contract_id, bundle, fascia.witness_id)
                     /\ todo' = Tail(todo)
                     /\ UNCHANGED <<cpc, cres>>
                ELSE /\ cres' = Some(ErrConnectivity)
                     /\ cpc' = "done"
                     /\ UNCHANGED <<bundles, todo>>
    /\ UNCHANGED <<witnesses, fascia, pre, nconsumes, composeVars, otherVars>>

\* the loop is exhausted: Ok(())
ConsumeOk ==
    /\ cpc = "bundles"
    /\ todo = << >>
    /\ cres' = Some(Ok)
    /\ cpc' = "done"
    /\ UNCHANGED <<witnesses, bundles, fascia, todo, pre, nconsumes, composeVars, otherVars>>

\* consume has returned; the inventory is ready for the next call
ConsumeReturn ==
    /\ cpc = "done"
    /\ cpc' = "idle"
    /\ UNCHANGED <<witnesses, bundles, fascia, todo, cres, pre, nconsumes, composeVars, otherVars>>

(***************************************************************************)
(* State known to the inventory, as compose reads it                       *)
(***************************************************************************)
Outputs == {1, 2}                 \* XOutputSeal: ledger outputs holding state
AssignmentTypes == {1, 2}         \* 1: a fungible type, 2: a data type
Ifaces == {"IfaceA", "IfaceB"}
AllocVouts == {2}                 \* vouts the allocator may hand out

Amount(v, b) == [kind |-> "Amount", value |-> v, blinding |-> b]
Data(v, b)   == [kind |-> "Data", value |-> v, blinding |-> b]

Opout(op, ty, no) == [op |-> op, ty |-> ty, no |-> no]

\* Ord of Opout: derived, field by field (op, ty, no)
OpoutLess(a, b) ==
    \/ a.op < b.op
    \/ a.op = b.op /\ a.ty < b.ty
    \/ a.op = b.op /\ a.ty = b.ty /\ a.no < b.no

\* The assignments the contracts of the model have made.  Each belongs to one
\* contract and has one state; the output it is sealed to varies.
Assignments ==
    { [contract |-> 1, opout |-> Opout(11, 1, 0), st |-> Amount(1, "orig")],
      [contract |-> 1, opout |-> Opout(12, 1, 0), st |-> Amount(2, "orig")],
      [contract |-> 1, opout |-> Opout(13, 2, 0), st |-> Data(1, "orig")],
      [contract |-> 1, opout |-> Opout(14, 2, 0), st |-> Data(2, "orig")],
      [contract |-> 2, opout |-> Opout(21, 1, 0), st |-> Amount(1, "orig")],
      [contract |-> 2, opout |-> Opout(22, 2, 0), st |-> Data(1, "orig")],
      [contract |-> 3, opout |-> Opout(31, 1, 0), st |-> Amount(2, "orig")] }

Items ==
    { [contract |-> a.contract, opout |-> a.opout, output |-> o, st |-> a.st] :
        a \in Assignments, o \in Outputs }

Inventories ==
    { inv \in SUBSET Items :
        /\ Cardinality(inv) <= MaxItems
        /\ \A i, j \in inv : i.opout = j.opout => i = j }

\* Iteration order of a BTreeMap<(Opout, XOutputSeal), PersistedState>: an
\* opout has one seal, so the order is the order of the opouts.
RECURSIVE ItemSeq(_)
ItemSeq(S) ==
    IF S = {} THEN << >>
    ELSE LET m == CHOOSE x \in S : \A y \in S : x = y \/ OpoutLess(x.opout, y.opout)
         IN  <<m>> \o ItemSeq(S \ {m})

\* Storage port: all state of the contract sealed to the given outpoints
state_for_outpoints(st, contract_id, outpoints) ==
    { i \in st : i.contract = contract_id /\ i.output \in outpoints }

\* Storage port: the contracts having state on the given outputs
contracts_by_outputs(st, outputs) ==
    { i.contract : i \in { j \in st : j.output \in outputs } }

\* Storage port: the contract's supplement, if any, with the velocity hints
\* of its owned state types
contract_suppl(id) ==
    CASE id = 1 -> Some([owned_state |-> [ty \in {2} |-> "Seldom"]])
      [] id = 2 -> None
      [] OTHER  -> Some([owned_state |-> [ty \in {1} |-> "Frequent"]])

\* VelocityHint::default()
DefaultVelocity == "Unspecified"

(***************************************************************************)
(* Transition builder: collects inputs and owned state                     *)
(***************************************************************************)
NewBuilder(contract_id, iface) ==
    [contract_id |-> contract_id, iface |-> iface, inputs |-> << >>, outputs |-> << >>]

add_input(builder, opout, st) ==
    [builder EXCEPT !.inputs = Append(@, [opout |-> opout, st |-> st])]

add_owned_state_raw(builder, ty, seal, st) ==
    [builder EXCEPT !.outputs = Append(@, [ty |-> ty, seal |-> seal, st |-> st])]

complete_transition(builder) ==
    [contract_id |-> builder.contract_id, iface |-> builder.iface,
     inputs |-> builder.inputs, assignments |-> builder.outputs]

\* TransitionInfo::new
TransitionInfo(transition, seals) == [transition |-> transition, inputs |-> seals]

\* the assignment names an interface implementation maps to assignment types
assignments_type(name) ==
    CASE name = "assetOwner" -> Some(1)
      [] name = "dataOwner"  -> Some(2)
      [] OTHER               -> None

(***************************************************************************)
(* Callbacks.  The blinders of the deterministic entry point are pure      *)
(* functions of (contract, assignment type): their value is the term.      *)
(***************************************************************************)
pedersen_blinder(id, ty) == <<"pedersen_blinder", id, ty>>
seal_blinder(id, ty)     == <<"seal_blinder", id, ty>>

AllocRets == {None} \cup {Some(v) : v \in AllocVouts}

Revealed(vout, blinding) == [kind |-> "Revealed", vout |-> vout, blinding |-> blinding]
Concealed(seal)          == [kind |-> "Concealed", seal |-> seal]

(***************************************************************************)
(* Inventory::compose_deterministic                                        *)
(***************************************************************************)
Err(tag) == [tag |-> tag]
ErrNoBlankOrChange(velocity, ty) ==
    [tag |-> "NoBlankOrChange", velocity |-> velocity, ty |-> ty]

\* A field of the invoice gets its value at the step that first reads it: what
\* compose has not read cannot bear on what it does.
Unread == [some |-> FALSE, unread |-> TRUE]

NoInvoice ==
    [expiry |-> Unread, contract |-> Unread, iface |-> Unread, assignment |-> Unread,
     beneficiary |-> Unread, owned_state |-> Unread]

\* faulty variant: the supplement is not consulted
velocity_hint_Default(id, assignment_type) == DefaultVelocity

\* the velocity hint output_for_assignment passes to the allocator
velocity_hint(id, assignment_type) ==
    LET suppl == contract_suppl(id)
    IN  IF suppl.some /\ assignment_type \in DOMAIN suppl.v.owned_state
        THEN suppl.v.owned_state[assignment_type]
        ELSE DefaultVelocity

\* the closure output_for_assignment, for the answer `ret` of the allocator
output_for_assignment(id, assignment_type, ret) ==
    LET velocity == velocity_hint(id, assignment_type)
    IN  IF ret.some
        THEN [ok |-> TRUE, seal |-> Revealed(ret.v, seal_blinder(id, assignment_type))]
        ELSE [ok |-> FALSE, err |-> ErrNoBlankOrChange(velocity, assignment_type)]

\* what one call of output_for_assignment adds to the logs
AllocCall(id, assignment_type, ret) ==
    [id |-> id, ty |-> assignment_type, velocity |-> velocity_hint(id, assignment_type),
     ret |-> ret]

SealBlindCalls(id, assignment_type, ret) ==
    IF ret.some THEN << <<"seal_blinder", id, assignment_type>> >> ELSE << >>

Fail(e) ==
    /\ pres' = Some(e)
    /\ ppc' = "done"

\* The timestamp Utc::now() returns
Now == 2

Expiries == {None, Some(Now - 1), Some(Now)}

\* the sets of previous outputs a caller passes (the outputs are symmetric)
PrevOutputSets == { {}, {1}, {1, 2} }

\* entry: the previous outputs are collected into a HashSet
ComposeCall ==
    /\ ppc = "idle"
    /\ \E outs \in PrevOutputSets :
        prev_outputs' = outs
    /\ ppc' = "pre"
    /\ UNCHANGED <<state, invoice, beneficiary_vout, composeMain, composeBlank, pres,
                   composeLog, consumeVars, otherVars>>

\* faulty variant: the contract is looked at before the expiry
precheck_ContractFirst(expiry, contract, iface) ==
    IF ~contract.some THEN "NoContract"
    ELSE IF expiry.some /\ expiry.v < Now THEN "InvoiceExpired"
    ELSE IF ~iface.some THEN "NoIface"
    ELSE "ok"

\* the three checks compose starts with, in their order
precheck(expiry, contract, iface) ==
    IF expiry.some /\ expiry.v < Now THEN "InvoiceExpired"
    ELSE IF ~contract.some THEN "NoContract"
    ELSE IF ~iface.some THEN "NoIface"
    ELSE "ok"

\* 1. Prepare the data: expiry, contract, interface
ComposePre ==
    /\ ppc = "pre"
    /\ \E expiry \in Expiries, contract \in {None, Some(1)},
          iface \in {None, Some("IfaceA")} :
        /\ invoice' = [invoice EXCEPT !.expiry = expiry, !.contract = contract,
                                      !.iface = iface]
        /\ IF precheck(expiry, contract, iface) # "ok"
           THEN Fail(Err(precheck(expiry, contract, iface)))
           ELSE ppc' = "builder" /\ UNCHANGED pres
    /\ UNCHANGED <<state, prev_outputs, beneficiary_vout, composeMain, composeBlank,
                   composeLog, consumeVars, otherVars>>

\* transition_builder, and the resolution of the target assignment
ComposeBuilder ==
    /\ ppc = "builder"
    /\ \E ok \in BOOLEAN, iimpls \in SUBSET Ifaces,
          assignment \in {None, Some("dataOwner"), Some("bogus")},
          default \in {None, Some("assetOwner")} :
        LET contract_id == invoice.contract.v
            iface       == invoice.iface.v
            name        == IF assignment.some THEN assignment ELSE default
        IN  /\ lookups' = Append(lookups, <<"transition_builder", None>>)
            /\ IF ~ok
               THEN /\ Fail(Err("Connectivity"))
                    /\ iimpls = {} /\ assignment = None /\ default = None
                    /\ UNCHANGED <<invoice, main_builder, assignment_id>>
               ELSE IF iface \notin iimpls
               THEN /\ Fail(Err("NoIfaceImpl"))
                    /\ assignment = None /\ default = None
                    /\ UNCHANGED <<invoice, main_builder, assignment_id>>
               ELSE /\ invoice' = [invoice EXCEPT !.assignment = assignment]
                    /\ IF ~name.some
                       THEN /\ Fail(Err("NoDefaultAssignment"))
                            /\ UNCHANGED <<main_builder, assignment_id>>
                       ELSE IF ~assignments_type(name.v).some
                       THEN /\ Fail(Err("InvalidStateField"))
                            /\ UNCHANGED <<main_builder, assignment_id>>
                       ELSE /\ main_builder' = NewBuilder(contract_id, iface)
                            /\ assignment_id' = assignments_type(name.v).v
                            /\ ppc' = "beneficiary"
                            /\ UNCHANGED pres
    /\ UNCHANGED <<state, prev_outputs, beneficiary_vout, beneficiary, main_inputs,
                   sum_inputs, data_inputs, queue, main_transition, composeBlank,
                   alloc_calls, blind_calls, consumeVars, otherVars>>

\* Beneficiary of an invoice: a blinded seal the payee made, or a request for
\* an output of the witness transaction
BlindedSeal(seal) == [kind |-> "BlindedSeal", seal |-> seal]
WitnessVout == [kind |-> "WitnessVout"]

Beneficiaries == {BlindedSeal("secretA"), BlindedSeal("secretB"), WitnessVout}

\* faulty variant: a vout is demanded for a blinded seal as well
beneficiary_seal_VoutRequired(b, vout, contract_id, ty) ==
    IF ~vout.some
    THEN [ok |-> FALSE, err |-> Err("NoBeneficiaryOutput")]
    ELSE IF b.kind = "BlindedSeal"
    THEN [ok |-> TRUE, seal |-> Concealed(b.seal), blind |-> << >>]
    ELSE [ok |-> TRUE, seal |-> Revealed(vout.v, seal_blinder(contract_id, ty)),
          blind |-> << <<"seal_blinder", contract_id, ty>> >>]

\* the match on (invoice.beneficiary, beneficiary_vout): the beneficiary's
\* BuilderSeal and the blinding calls made for it, or the error
beneficiary_seal(b, vout, contract_id, ty) ==
    IF b.kind = "BlindedSeal"
    THEN [ok |-> TRUE, seal |-> Concealed(b.seal), blind |-> << >>]
    ELSE IF vout.some
    THEN [ok |-> TRUE, seal |-> Revealed(vout.v, seal_blinder(contract_id, ty)),
          blind |-> << <<"seal_blinder", contract_id, ty>> >>]
    ELSE [ok |-> FALSE, err |-> Err("NoBeneficiaryOutput")]

\* the beneficiary's seal, then the lookup of the state on the previous outputs
ComposeBeneficiary ==
    /\ ppc = "beneficiary"
    /\ \E b \in Beneficiaries, vout \in {None, Some(1)}, ok \in BOOLEAN :
        LET contract_id == invoice.contract.v
            made        == beneficiary_seal(b, vout, contract_id, assignment_id)
        IN  /\ invoice' = [invoice EXCEPT !.beneficiary = Some(b)]
            /\ beneficiary_vout' = vout
            /\ IF ~made.ok
               THEN /\ Fail(made.err)
                    /\ ok
                    /\ UNCHANGED <<beneficiary, blind_calls, queue, lookups>>
               ELSE /\ beneficiary' = made.seal
                    /\ blind_calls' = blind_calls \o made.blind
                    /\ lookups' = Append(lookups, <<"state_for_outpoints", None>>)
                    /\ IF ok
                       THEN /\ queue' = ItemSeq(state_for_outpoints(state, contract_id,
                                                                    prev_outputs))
                            /\ ppc' = "inputs"
                            /\ UNCHANGED pres
                       ELSE /\ Fail(Err("Connectivity"))
                            /\ UNCHANGED queue
    /\ UNCHANGED <<state, prev_outputs, assignment_id, main_builder, main_inputs,
                   sum_inputs, data_inputs, main_transition, composeBlank,
                   alloc_calls, consumeVars, otherVars>>

\* faulty variant: only the types above the target type are carried forward
is_carried_Above(ty, target) == ty > target

\* state of another type than the target assignment type is carried forward
is_carried(ty, target) == ty # target

\* 2. Prepare transition: one iteration of the loop over the state of the
\* contract on the previous outputs
ComposeInput ==
    /\ ppc = "inputs"
    /\ queue # << >>
    /\ LET item        == Head(queue)
           opout       == item.opout
           contract_id == invoice.contract.v
           with_input  == add_input(main_builder, opout, item.st)
       IN  /\ queue' = Tail(queue)
           /\ main_inputs' = Append(main_inputs, item.output)
           /\ IF is_carried(opout.ty, assignment_id)
              THEN \E ret \in AllocRets :
                   LET out   == output_for_assignment(contract_id, opout.ty, ret)
                       moved == [item.st EXCEPT
                                    !.blinding = pedersen_blinder(contract_id, assignment_id)]
                   IN  /\ lookups' = Append(lookups, <<"contract_suppl", None>>)
                       /\ alloc_calls' = Append(alloc_calls, AllocCall(contract_id, opout.ty, ret))
                       /\ IF out.ok
                          THEN /\ blind_calls' = blind_calls
                                     \o SealBlindCalls(contract_id, opout.ty, ret)
                                     \o << <<"pedersen_blinder", contract_id, assignment_id>> >>
                               /\ main_builder' =
                                     add_owned_state_raw(with_input, opout.ty, out.seal, moved)
                               /\ UNCHANGED <<ppc, pres>>
                          ELSE /\ Fail(out.err)
                               /\ main_builder' = with_input
                               /\ UNCHANGED blind_calls
                       /\ UNCHANGED <<sum_inputs, data_inputs>>
              ELSE /\ main_builder' = with_input
                   /\ IF item.st.kind = "Amount"
                      THEN /\ sum_inputs' = sum_inputs + item.st.value
                           /\ UNCHANGED data_inputs
                      ELSE /\ data_inputs' = Append(data_inputs, item.st.value)
                           /\ UNCHANGED sum_inputs
                   /\ UNCHANGED <<ppc, pres, composeLog>>
    /\ UNCHANGED <<state, composeArgs, assignment_id, beneficiary, main_transition,
                   composeBlank, consumeVars, otherVars>>

OwnedStates ==
    {[kind |-> "Amount", value |-> a] : a \in 0..MaxAmount}
        \cup {[kind |-> "Data", value |-> d] : d \in {1, 2}}
        \cup {[kind |-> "Void"]}

\* faulty variant: an exact match is treated as an excess
cmp_EqualAsGreater(a, b) == IF a >= b THEN "Greater" ELSE "Less"

\* faulty variant: a shortfall is treated as an exact match
cmp_LessAsEqual(a, b) == IF a > b THEN "Greater" ELSE "Equal"

\* Ord::cmp of two amounts
cmp(a, b) == IF a > b THEN "Greater" ELSE IF a < b THEN "Less" ELSE "Equal"

\* faulty variant: the change is the whole input sum
change_amount_Whole(sum, amt) == sum

\* the amount of the change output
change_amount(sum, amt) == sum - amt

\* faulty variant: any collected data value will do
has_allocation_Any(data, allocation) == data # << >>

\* the requested allocation is among the collected data values
has_allocation(data, allocation) ==
    \E k \in 1..Len(data) : data[k] = allocation

\* faulty variant: the data state is assigned twice
add_data_raw_Twice(builder, ty, seal, allocation, blinding) ==
    add_owned_state_raw(
        add_owned_state_raw(builder, ty, seal, Data(allocation, blinding)),
        ty, seal, Data(allocation, blinding))

\* TransitionBuilder::add_data_raw: one more assignment, of a data state
add_data_raw(builder, ty, seal, allocation, blinding) ==
    add_owned_state_raw(builder, ty, seal, Data(allocation, blinding))

\* Add change, add the beneficiary's state, complete the main transition
ComposeFulfil ==
    /\ ppc = "inputs"
    /\ queue = << >>
    /\ \E owned \in OwnedStates, ret \in AllocRets :
        LET contract_id == invoice.contract.v
            bf          == pedersen_blinder(contract_id, assignment_id)
            bfcall      == <<"pedersen_blinder", contract_id, assignment_id>>
        IN  /\ invoice' = [invoice EXCEPT !.owned_state = Some(owned)]
            /\ IF owned.kind = "Amount"
               THEN LET amt == owned.value
                    IN  IF cmp(sum_inputs, amt) = "Greater"
                        THEN LET out == output_for_assignment(contract_id, assignment_id, ret)
                                 change == add_owned_state_raw(main_builder, assignment_id,
                                               out.seal, Amount(change_amount(sum_inputs, amt), bf))
                             IN  /\ lookups' = Append(lookups, <<"contract_suppl", None>>)
                                 /\ alloc_calls' = Append(alloc_calls,
                                        AllocCall(contract_id, assignment_id, ret))
                                 /\ IF out.ok
                                    THEN /\ main_transition' = complete_transition(
                                                add_owned_state_raw(change, assignment_id,
                                                    beneficiary, Amount(amt, bf)))
                                         /\ blind_calls' = blind_calls
                                                \o SealBlindCalls(contract_id, assignment_id, ret)
                                                \o <<bfcall, bfcall>>
                                         /\ ppc' = "spent"
                                         /\ UNCHANGED pres
                                    ELSE /\ Fail(out.err)
                                         /\ UNCHANGED <<main_transition, blind_calls>>
                        ELSE IF cmp(sum_inputs, amt) = "Less"
                        THEN /\ ret = None
                             /\ Fail(Err("InsufficientState"))
                             /\ UNCHANGED <<main_transition, composeLog>>
                        ELSE /\ ret = None
                             /\ main_transition' = complete_transition(
                                    add_owned_state_raw(main_builder, assignment_id,
                                        beneficiary, Amount(amt, bf)))
                             /\ blind_calls' = Append(blind_calls, bfcall)
                             /\ ppc' = "spent"
                             /\ UNCHANGED <<pres, lookups, alloc_calls>>
               ELSE IF owned.kind = "Data"
               THEN LET allocation == owned.value
                    IN  /\ ret = None
                        /\ IF ~has_allocation(data_inputs, allocation)
                           THEN /\ Fail(Err("InsufficientState"))
                                /\ UNCHANGED <<main_transition, composeLog>>
                           ELSE /\ main_transition' = complete_transition(
                                       add_data_raw(main_builder, assignment_id,
                                           beneficiary, allocation,
                                           seal_blinder(contract_id, assignment_id)))
                                /\ blind_calls' = Append(blind_calls,
                                       <<"seal_blinder", contract_id, assignment_id>>)
                                /\ ppc' = "spent"
                                /\ UNCHANGED <<pres, lookups, alloc_calls>>
               ELSE /\ ret = None
                    /\ Fail(Err("panic: not yet implemented"))
                    /\ UNCHANGED <<main_transition, composeLog>>
    /\ UNCHANGED <<state, prev_outputs, beneficiary_vout, assignment_id, beneficiary,
                   main_builder, main_inputs, sum_inputs, data_inputs, queue,
                   composeBlank, consumeVars, otherVars>>

\* faulty variant: the contract of the invoice is not skipped
enumerate_spent_NoSkip(st, outputs, contract_id) ==
    UNION { state_for_outpoints(st, id, {output}) :
              <<output, id>> \in { <<o, c>> \in outputs \X ContractIds :
                                      c \in contracts_by_outputs(st, {o}) } }

\* the HashMap spent_state, as the set of its state items: for every previous
\* output and every contract on it but the invoice's, the state of that
\* contract on that output
enumerate_spent(st, outputs, contract_id) ==
    UNION { state_for_outpoints(st, id, {output}) :
              <<output, id>> \in { <<o, c>> \in outputs \X ContractIds :
                                      /\ c \in contracts_by_outputs(st, {o})
                                      /\ c # contract_id } }

\* 3. Prepare other transitions.  Enumerate state: what the other contracts
\* have on the previous outputs
ComposeSpent ==
    /\ ppc = "spent"
    /\ \E ok \in BOOLEAN :
        /\ lookups' = Append(lookups, <<"contracts_by_outputs", None>>)
        /\ IF ok
           THEN /\ spent_state' = enumerate_spent(state, prev_outputs, invoice.contract.v)
                /\ ppc' = "blanks"
                /\ UNCHANGED pres
           ELSE /\ Fail(Err("Connectivity"))
                /\ UNCHANGED spent_state
    /\ UNCHANGED <<state, composeArgs, composeMain, blank_id, blank_builder,
                   blank_outputs, blanks, alloc_calls, blind_calls, consumeVars, otherVars>>

\* The size Confined<Vec<_>, 0, U24 - 1> admits
U24 == 16777216

\* IfaceId: the key of BTreeMap<IfaceId, IfaceImpl>; the ids are not in the
\* order of the names
iface_id(name) ==
    CASE name = "IfaceA" -> 3
      [] name = "IfaceB" -> 2
      [] name = "IfaceC" -> 4
      [] OTHER           -> 1

\* schema_ifaces.iimpls of the contracts other than the invoice's: the sets of
\* interfaces a schema may have implementations of
Iimpls == { {}, {"IfaceA", "IfaceB"}, {"IfaceC", "IfaceD"} }

\* faulty variant: the first implementation, whatever interface was requested
blank_iface_First(iimpls, iface) ==
    CHOOSE i \in iimpls : \A j \in iimpls : iface_id(i) <= iface_id(j)

\* blank_builder: the implementation of the requested interface if the schema
\* of the contract has one, else the first of those it has
blank_iface(iimpls, iface) ==
    IF iface \in iimpls THEN iface
    ELSE CHOOSE i \in iimpls : \A j \in iimpls : iface_id(i) <= iface_id(j)

\* Construct blank transitions: the loop takes the next contract of the HashMap
\* (in no defined order) and asks for its blank builder
ComposeBlankBegin ==
    /\ ppc = "blanks"
    /\ \E id \in { i.contract : i \in spent_state }, ok \in BOOLEAN,
          iimpls \in Iimpls :
        /\ lookups' = Append(lookups,
               <<"blank_builder", IF ok THEN Some(iimpls) ELSE None>>)
        /\ IF ~ok
           THEN /\ iimpls = {}
                /\ Fail(Err("Connectivity"))
                /\ UNCHANGED <<blank_id, blank_builder, blank_outputs, queue>>
           ELSE IF iimpls = {}
           THEN /\ Fail(Err("NoIfaceImpl"))
                /\ UNCHANGED <<blank_id, blank_builder, blank_outputs, queue>>
           ELSE /\ blank_id' = id
                /\ blank_builder' = NewBuilder(id, blank_iface(iimpls, invoice.iface.v))
                /\ blank_outputs' = << >>
                /\ queue' = ItemSeq({ i \in spent_state : i.contract = id })
                /\ ppc' = "blank"
                /\ UNCHANGED pres
    /\ UNCHANGED <<state, composeArgs, assignment_id, beneficiary, main_builder,
                   main_inputs, sum_inputs, data_inputs, main_transition,
                   spent_state, blanks, alloc_calls, blind_calls, consumeVars, otherVars>>

\* one state item of the other contract: an input and the same state at a new output
ComposeBlankItem ==
    /\ ppc = "blank"
    /\ queue # << >>
    /\ \E ret \in AllocRets :
        LET item  == Head(queue)
            opout == item.opout
            out   == output_for_assignment(blank_id, opout.ty, ret)
        IN  /\ lookups' = Append(lookups, <<"contract_suppl", None>>)
            /\ alloc_calls' = Append(alloc_calls, AllocCall(blank_id, opout.ty, ret))
            /\ IF out.ok
               THEN /\ blind_calls' = blind_calls \o SealBlindCalls(blank_id, opout.ty, ret)
                    /\ blank_outputs' = Append(blank_outputs, item.output)
                    /\ blank_builder' =
                          add_owned_state_raw(add_input(blank_builder, opout, item.st),
                                              opout.ty, out.seal, item.st)
                    /\ queue' = Tail(queue)
                    /\ UNCHANGED <<ppc, pres>>
               ELSE /\ Fail(out.err)
                    /\ UNCHANGED <<blind_calls, blank_outputs, blank_builder, queue>>
    /\ UNCHANGED <<state, composeArgs, assignment_id, beneficiary, main_builder,
                   main_inputs, sum_inputs, data_inputs, main_transition,
                   spent_state, blank_id, blanks, consumeVars, otherVars>>

\* the blank transition is completed and pushed
ComposeBlankEnd ==
    /\ ppc = "blank"
    /\ queue = << >>
    /\ IF Len(blanks) >= U24 - 1
       THEN /\ Fail(Err("TooManyContracts"))
            /\ UNCHANGED <<blanks, spent_state>>
       ELSE /\ blanks' = Append(blanks,
                            TransitionInfo(complete_transition(blank_builder), blank_outputs))
            /\ spent_state' = { i \in spent_state : i.contract # blank_id }
            /\ ppc' = "blanks"
            /\ UNCHANGED pres
    /\ UNCHANGED <<state, composeArgs, composeMain, blank_id, blank_builder,
                   blank_outputs, composeLog, consumeVars, otherVars>>

\* Ok(Batch { main, blanks })
ComposeReturn ==
    /\ ppc = "blanks"
    /\ spent_state = {}
    /\ pres' = Some([tag |-> "Batch",
                     main |-> TransitionInfo(main_transition, main_inputs),
                     blanks |-> blanks])
    /\ ppc' = "done"
    /\ UNCHANGED <<state, composeArgs, composeMain, composeBlank, composeLog, consumeVars, otherVars>>

(***************************************************************************)
(* The history of a contract, as consign reads it from the stash           *)
(***************************************************************************)
\* the contract consigned; its genesis has the contract id as operation id
ConsignContract == 1

TransitionIds == {11, 12, 13, 14}
BundleIds == {1, 2, 3, 4}

\* the elements of a list
Elements(sq) == { sq[k] : k \in 1..Len(sq) }

\* the assignments of each transition, in the order of its typed assignments:
\* by assignment type, then by index
TypedAssignments(op) ==
    CASE op = 11 -> <<Opout(11, 1, 0)>>
      [] op = 12 -> <<Opout(12, 1, 0), Opout(12, 1, 1)>>
      [] op = 13 -> <<Opout(13, 1, 0), Opout(13, 2, 0)>>
      [] op = 14 -> <<Opout(14, 1, 0)>>

AllOpouts ==
    {Opout(ConsignContract, 1, 0)}
        \cup UNION { Elements(TypedAssignments(op)) : op \in TransitionIds }

\* the concealed form of the seal of an assignment
SecretSeal(opout) == <<"secret", opout.op, opout.ty, opout.no>>

\* the output the seal of an assignment is defined on
seal_output(opout) ==
    CASE opout.op = 11 -> 1
      [] opout.op = 12 -> opout.no + 1
      [] opout.op = 13 -> 3 - opout.ty
      [] opout.op = 14 -> 2
      [] OTHER         -> 1

\* Histories: the transitions made; for every transition the operations its
\* inputs come from (in the order of its inputs) and its bundle; for every
\* bundle its witness and the anchor stored with it.
LongChain ==
    [ops     |-> {11, 12, 13, 14},
     inputs  |-> (11 :> <<ConsignContract>>) @@ (12 :> <<11>>) @@ (13 :> <<12>>)
                    @@ (14 :> <<13>>),
     bundle  |-> (11 :> 1) @@ (12 :> 2) @@ (13 :> 3) @@ (14 :> 4),
     witness |-> (1 :> 1) @@ (2 :> 2) @@ (3 :> 3) @@ (4 :> 4),
     anchor  |-> (1 :> "anchorA") @@ (2 :> "anchorA") @@ (3 :> "anchorA")
                    @@ (4 :> "anchorA")]

Chain == [LongChain EXCEPT !.ops = {11, 12, 13}]

\* 13 spends outputs of 11 and of 12, and 12 spends an output of 11
Diamond == [Chain EXCEPT !.inputs[13] = <<11, 12>>]

\* 11 and 12 are in one bundle
Siblings ==
    [Chain EXCEPT !.inputs[12] = <<ConsignContract>>, !.inputs[13] = <<11, 12>>,
                  !.bundle[12] = 1, !.bundle[13] = 2]

\* the bundles of 11 and of 12 are anchored to one witness
Twins ==
    [Chain EXCEPT !.inputs[12] = <<ConsignContract>>, !.inputs[13] = <<11, 12>>,
                  !.witness[2] = 1, !.witness[3] = 2]

\* as Twins, with two anchors recorded for the witness that disagree
TwinsApart == [Twins EXCEPT !.anchor[2] = "anchorB"]

Histories == {LongChain, Chain, Diamond, Siblings, Twins, TwinsApart}

known_opouts(st) ==
    {Opout(ConsignContract, 1, 0)}
        \cup UNION { Elements(TypedAssignments(op)) : op \in st.known }

\* the sets of outputs a contract declares public
PublicSets == { {}, {Opout(12, 1, 1)}, {Opout(ConsignContract, 1, 0), Opout(13, 1, 0)} }

\* What the stash knows: the transitions revealed to it, the assignments of
\* these whose seal it knows only concealed, and the public outputs.
Stashes ==
    { st \in [history : Histories, known : SUBSET TransitionIds,
              concealed : SUBSET AllOpouts, public : SUBSET AllOpouts] :
        /\ st.known \subseteq st.history.ops
        /\ st.concealed \subseteq known_opouts(st) \ {Opout(ConsignContract, 1, 0)}
        /\ Cardinality(st.concealed) <= MaxConcealed
        /\ \E P \in PublicSets : st.public = P \cap known_opouts(st) }

(***************************************************************************)
(* Storage port, reading half                                              *)
(***************************************************************************)
public_opouts(st, contract_id) == st.public

opouts_by_outputs(st, contract_id, outs) ==
    { o \in known_opouts(st) : o \notin st.concealed /\ seal_output(o) \in Elements(outs) }

opouts_by_terminals(st, seals) ==
    { o \in known_opouts(st) : SecretSeal(o) \in Elements(seals) }

\* transition: the transition with this id, if the stash knows it
transition(st, opid) ==
    IF opid \in st.known
    THEN Some([id |-> opid, inputs |-> st.history.inputs[opid],
               assignments |-> TypedAssignments(opid)])
    ELSE None

op_bundle_id(st, opid) == st.history.bundle[opid]

\* a bundle: its id and the transitions revealed in it
Bundle(id, known) == [bundle_id |-> id, known_transitions |-> known]

\* bundled_witness: the witness of the bundle, its anchor, and the bundle as
\* far as the stash has it revealed
bundled_witness(st, id) ==
    [witness_id |-> st.history.witness[id],
     anchor     |-> st.history.anchor[id],
     bundles    |-> {Bundle(id, { op \in st.known : st.history.bundle[op] = id })}]

\* reveal_transition: the transition is added to the bundle it belongs to;
\* a transition of no bundle of the witness is refused
reveal_transition(st, bw, opid) ==
    IF \E b \in bw.bundles : b.bundle_id = st.history.bundle[opid]
    THEN [ok |-> TRUE,
          v  |-> [bw EXCEPT !.bundles =
                     { IF b.bundle_id = st.history.bundle[opid]
                       THEN [b EXCEPT !.known_transitions = @ \cup {opid}]
                       ELSE b : b \in bw.bundles }]]
    ELSE [ok |-> FALSE]

\* merge_reveal of two bundles of one id: what either reveals
merge_bundles(B1, B2) ==
    { Bundle(id, UNION { b.known_transitions : b \in { c \in B1 \cup B2 : c.bundle_id = id } })
        : id \in { b.bundle_id : b \in B1 \cup B2 } }

\* merge_reveal of two bundled witnesses of one witness id: anchors that
\* disagree are a contradiction; the bundles are merged id by id
merge_reveal(bw1, bw2) ==
    IF bw1.witness_id # bw2.witness_id \/ bw1.anchor # bw2.anchor
    THEN [ok |-> FALSE]
    ELSE [ok |-> TRUE, v |-> [bw1 EXCEPT !.bundles = merge_bundles(bw1.bundles, bw2.bundles)]]

(***************************************************************************)
(* Inventory::consign, and its entry points export_contract and transfer   *)
(***************************************************************************)
\* ceilings of the confined collections of a consignment
BundleCeiling == 3
TerminalCeiling == 2

ErrInventory(what) == [tag |-> "InventoryError", what |-> what]
ErrConcealedPublicState(opout) == [tag |-> "ConcealedPublicState", opout |-> opout]

\* the lists a caller passes
OutputLists == { << >>, <<1>>, <<1, 1>>, <<2>>, <<1, 2>>, <<2, 1>> }

SecretLists ==
    LET sA == SecretSeal(Opout(12, 1, 0))
        sB == SecretSeal(Opout(13, 2, 0))
    IN  { << >>, <<sA>>, <<sB>>, <<sA, sB>>, <<sB, sA>>, <<sB, sB>> }

\* iteration order of a BTreeSet<Opout>
RECURSIVE OpoutSeq(_)
OpoutSeq(S) ==
    IF S = {} THEN << >>
    ELSE LET m == CHOOSE x \in S : \A y \in S : x = y \/ OpoutLess(x, y)
         IN  <<m>> \o OpoutSeq(S \ {m})

\* faulty variant: the outputs are kept in the order the caller named them
collect_opouts_CallerOrder(st, contract_id, outs, seals) ==
    LET RECURSIVE in_order(_, _)
        in_order(sets, sofar) ==
            IF sets = << >> THEN sofar
            ELSE in_order(Tail(sets),
                          sofar \o OpoutSeq(Head(sets) \ Elements(sofar)))
    IN  in_order(
            <<public_opouts(st, contract_id)>>
                \o [k \in 1..Len(outs) |->
                        opouts_by_outputs(st, contract_id, <<outs[k]>>)]
                \o [k \in 1..Len(seals) |-> opouts_by_terminals(st, <<seals[k]>>)],
            << >>)

\* 1.1-1.2: the public outputs, extended by the outputs under the caller's
\* seals and under the caller's secret seals, in one BTreeSet
collect_opouts(st, contract_id, outs, seals) ==
    OpoutSeq(public_opouts(st, contract_id)
                \cup opouts_by_outputs(st, contract_id, outs)
                \cup opouts_by_terminals(st, seals))

\* BTreeMap::insert: the value under the key is replaced
insert(map, key, value) == (key :> value) @@ map

\* BTreeMap::into_values: the values in the order of the keys
into_values(map) ==
    LET keys == SortedSeq(DOMAIN map)
    IN  [k \in 1..Len(keys) |-> map[keys[k]]]

\* <[_]>::contains
contains(list, x) == \E k \in 1..Len(list) : list[k] = x

\* Terminal::new
Terminal_new(seal) == [seals |-> {seal}]

\* faulty variant: a disclosed output whose seal is concealed is passed over
seal_branch_Skip(in_secrets, own, revealed) ==
    IF in_secrets THEN "secret"
    ELSE IF own /\ revealed THEN "reveal"
    ELSE "skip"

\* what the scan does with one assignment of the owning transition
seal_branch(in_secrets, own, revealed) ==
    IF in_secrets THEN "secret"
    ELSE IF own THEN (IF revealed THEN "reveal" ELSE "fail")
    ELSE "skip"

\* 2. Collect seals from terminal transitions: the loops over the assignments
\* of the transition owning the collected output
RECURSIVE collect_terminals(_, _, _, _, _, _)
collect_terminals(st, assignments, opout, seals, bid, terms) ==
    IF assignments = << >> THEN [ok |-> TRUE, terminals |-> terms]
    ELSE LET a      == Head(assignments)
             seal   == SecretSeal(a)
             branch == seal_branch(contains(seals, seal),
                                   opout.no = a.no /\ opout.ty = a.ty,
                                   a \notin st.concealed)
         IN  IF branch = "fail"
             THEN [ok |-> FALSE, err |-> ErrConcealedPublicState(opout)]
             ELSE collect_terminals(st, Tail(assignments), opout, seals, bid,
                     IF branch = "skip" THEN terms
                     ELSE insert(terms, bid, Terminal_new(seal)))

GFail(e) ==
    /\ gres' = Some(e)
    /\ gpc' = "return"

\* entry, and 1.1-1.2: the public outputs and the outputs the caller asked for
ConsignCall ==
    /\ gpc = "idle"
    /\ \E e \in {"export_contract", "transfer"}, outs \in OutputLists,
          seals \in SecretLists, ok \in BOOLEAN :
        /\ e = "export_contract" => (outs = << >> /\ seals = << >>)
        /\ entry' = e
        /\ consign_outputs' = outs
        /\ secret_seals' = seals
        /\ IF ok
           THEN /\ opouts' = collect_opouts(stash, ConsignContract, outs, seals)
                /\ gpc' = "opouts"
                /\ UNCHANGED gres
           ELSE /\ GFail(ErrInventory("Connectivity"))
                /\ UNCHANGED opouts
    /\ UNCHANGED <<stash, bundled_witnesses, transitions, terminals, ids, eres, gfirst,
                   consumeVars, composeVars, recomposeVars, errorVars, ifaceVars>>

\* 1.3: one iteration of the loop over the collected outputs
ConsignOpout ==
    /\ gpc = "opouts"
    /\ opouts # << >>
    /\ LET opout == Head(opouts)
       IN  IF opout.op = ConsignContract
           THEN /\ opouts' = Tail(opouts)
                /\ UNCHANGED <<bundled_witnesses, transitions, terminals, gpc, gres>>
           ELSE \E ok \in BOOLEAN :
                LET tr        == transition(stash, opout.op)
                    bid == op_bundle_id(stash, opout.op)
                    scan      == collect_terminals(stash, tr.v.assignments, opout,
                                                   secret_seals, bid, terminals)
                IN  IF ~ok
                    THEN /\ GFail(ErrInventory("Connectivity"))
                         /\ UNCHANGED <<opouts, bundled_witnesses, transitions, terminals>>
                    ELSE IF ~tr.some
                    THEN /\ GFail(ErrInventory("TransitionAbsent"))
                         /\ UNCHANGED <<opouts, bundled_witnesses, transitions, terminals>>
                    ELSE IF ~scan.ok
                    THEN /\ GFail(scan.err)
                         /\ UNCHANGED <<opouts, bundled_witnesses, transitions, terminals>>
                    ELSE /\ opouts' = Tail(opouts)
                         /\ transitions' = transitions \cup {opout.op}
                         /\ terminals' = scan.terminals
                         /\ bundled_witnesses' =
                               IF bid \in DOMAIN bundled_witnesses
                               THEN bundled_witnesses
                               ELSE insert(bundled_witnesses, bid,
                                           bundled_witness(stash, bid))
                         /\ UNCHANGED <<gpc, gres>>
    /\ UNCHANGED <<stash, entry, consign_outputs, secret_seals, ids, eres, gfirst,
                   consumeVars, composeVars, recomposeVars, errorVars, ifaceVars>>

\* the operations the inputs of the given transitions come from, transition
\* by transition
RECURSIVE input_ops(_, _)
input_ops(st, ops) ==
    IF ops = << >> THEN << >>
    ELSE st.history.inputs[Head(ops)] \o input_ops(st, Tail(ops))

\* 2. the worklist starts with the inputs of the collected transitions
ConsignInputs ==
    /\ gpc = "opouts"
    /\ opouts = << >>
    /\ ids' = input_ops(stash, SortedSeq(transitions))
    /\ gpc' = "ancestors"
    /\ UNCHANGED <<stash, entry, consign_outputs, secret_seals, opouts, bundled_witnesses,
                   transitions, terminals, gres, eres, gfirst,
                   consumeVars, composeVars, recomposeVars, errorVars, ifaceVars>>

\* faulty variant: the inputs of an ancestor are not followed
next_ids_Shallow(rest, inputs) == rest

\* the worklist after an ancestor was taken from it
next_ids(rest, inputs) == rest \o inputs

\* faulty variant: the last id is read and left on the worklist
pop_Last(list) == list

\* Vec::pop: the list without its last element
pop(list) == SubSeq(list, 1, Len(list) - 1)

\* one iteration of the while loop over the worklist
ConsignAncestor ==
    /\ gpc = "ancestors"
    /\ ids # << >>
    /\ LET id   == ids[Len(ids)]
           rest == pop(ids)
       IN  IF id = ConsignContract
           THEN /\ ids' = rest
                /\ UNCHANGED <<bundled_witnesses, transitions, gpc, gres>>
           ELSE \E ok \in BOOLEAN :
                LET tr        == transition(stash, id)
                    bid == op_bundle_id(stash, id)
                    found     == IF bid \in DOMAIN bundled_witnesses
                                 THEN bundled_witnesses[bid]
                                 ELSE bundled_witness(stash, bid)
                    revealed  == reveal_transition(stash, found, id)
                IN  IF ~ok
                    THEN /\ GFail(ErrInventory("Connectivity"))
                         /\ UNCHANGED <<ids, bundled_witnesses, transitions>>
                    ELSE IF ~tr.some
                    THEN /\ GFail(ErrInventory("TransitionAbsent"))
                         /\ UNCHANGED <<ids, bundled_witnesses, transitions>>
                    ELSE IF ~revealed.ok
                    THEN /\ GFail([tag |-> "Reveal"])
                         /\ UNCHANGED <<ids, bundled_witnesses, transitions>>
                    ELSE /\ ids' = next_ids(rest, tr.v.inputs)
                         /\ transitions' = transitions \cup {id}
                         /\ bundled_witnesses' = insert(bundled_witnesses, bid, revealed.v)
                         /\ UNCHANGED <<gpc, gres>>
    /\ UNCHANGED <<stash, entry, consign_outputs, secret_seals, opouts, terminals, eres,
                   gfirst, consumeVars, composeVars, recomposeVars, errorVars, ifaceVars>>

\* faulty variant: a later bundled witness takes the place of an earlier one
fold_witness_Overwrite(acc, bw) ==
    [ok |-> TRUE, v |-> insert(acc, bw.witness_id, bw)]

\* one iteration of the loop that puts the bundled witnesses under their
\* witness ids
fold_witness(acc, bw) ==
    IF bw.witness_id \in DOMAIN acc
    THEN LET merged == merge_reveal(acc[bw.witness_id], bw)
         IN  IF merged.ok
             THEN [ok |-> TRUE, v |-> insert(acc, bw.witness_id, merged.v)]
             ELSE [ok |-> FALSE]
    ELSE [ok |-> TRUE, v |-> insert(acc, bw.witness_id, bw)]

\* faulty variant: a bundled witness that contradicts the entry of its witness
\* is left out
RECURSIVE merge_witnesses_Lenient(_, _)
merge_witnesses_Lenient(bws, acc) ==
    IF bws = << >> THEN [ok |-> TRUE, v |-> acc]
    ELSE LET step == fold_witness(acc, Head(bws))
         IN  merge_witnesses_Lenient(Tail(bws), IF step.ok THEN step.v ELSE acc)

\* the loop that puts the bundled witnesses under their witness ids
RECURSIVE merge_witnesses(_, _)
merge_witnesses(bws, acc) ==
    IF bws = << >> THEN [ok |-> TRUE, v |-> acc]
    ELSE LET step == fold_witness(acc, Head(bws))
         IN  IF step.ok THEN merge_witnesses(Tail(bws), step.v) ELSE [ok |-> FALSE]

\* faulty variant: what exceeds the ceiling is dropped
confine_Truncate(list, ceiling) ==
    [ok |-> TRUE, v |-> SubSeq(list, 1, IF Len(list) > ceiling THEN ceiling ELSE Len(list))]

\* Confined::try_from_iter: a collection above the ceiling is refused
confine(list, ceiling) ==
    IF Len(list) > ceiling THEN [ok |-> FALSE] ELSE [ok |-> TRUE, v |-> list]

\* the consignment is assembled: genesis, the bundled witnesses by witness id,
\* the terminals
ConsignAssemble ==
    /\ gpc = "ancestors"
    /\ ids = << >>
    /\ \E ok \in BOOLEAN :
        LET merged == merge_witnesses(into_values(bundled_witnesses), << >>)
            kept   == confine(into_values(merged.v), BundleCeiling)
            terms  == confine(SortedSeq(DOMAIN terminals), TerminalCeiling)
        IN  IF ~ok THEN GFail(ErrInventory("Connectivity"))
            ELSE IF ~merged.ok THEN GFail([tag |-> "MergeReveal"])
            ELSE IF ~kept.ok THEN GFail([tag |-> "TooManyBundles"])
            ELSE IF ~terms.ok THEN GFail([tag |-> "TooManyTerminals"])
            ELSE GFail([tag       |-> "Consignment",
                        transfer  |-> (entry = "transfer"),
                        genesis   |-> ConsignContract,
                        bundles   |-> kept.v,
                        terminals |-> [b \in Elements(terms.v) |-> terminals[b]]])
    /\ UNCHANGED <<stash, entry, consign_outputs, secret_seals, opouts, bundled_witnesses,
                   transitions, terminals, ids, eres, gfirst,
                   consumeVars, composeVars, recomposeVars, errorVars, ifaceVars>>

\* faulty variant: export_contract leaves the transfer flag set
entry_flag_Set(e) == TRUE

\* the transfer flag an entry point gives the consignment
entry_flag(e) == e = "transfer"

\* export_contract and transfer: an error of consign is passed on, a
\* consignment gets its transfer flag
ConsignReturn ==
    /\ gpc = "return"
    /\ eres' = IF gres.v.tag = "Consignment"
               THEN Some([gres.v EXCEPT !.transfer = entry_flag(entry)])
               ELSE gres
    /\ gpc' = "done"
    /\ UNCHANGED <<stash, entry, consign_outputs, secret_seals, opouts, bundled_witnesses,
                   transitions, terminals, ids, gres, gfirst,
                   consumeVars, composeVars, recomposeVars, errorVars, ifaceVars>>

(***************************************************************************)
(* Error types and their conversions.  An error value has its type, its    *)
(* variant (for a type without variants: what went wrong) and the value    *)
(* it wraps.                                                               *)
(***************************************************************************)
ErrorValue(type, variant, inner) == [type |-> type, variant |-> variant, inner |-> inner]

\* what an I/O collaborator fails with
IoErrors == {"io", "timeout"}

\* DataError: the variants built directly
DataErrorUnits ==
    {"NotValidated", "UnresolvedTransactions", "TerminalsUnmined", "ChainMismatch",
     "OutpointUnknown", "NoIfaceImpl", "Concealed"}

\* InventoryInconsistency: the variants built directly
InconsistencyUnits ==
    {"StateAbsent", "DisclosureAbsent", "BundleAbsent", "BundleContractUnknown",
     "BundleMissedInAnchors", "NoBundleAnchor", "OutsizedBundle"}

\* the failures an inventory operation meets: of the stash, of the storage of
\* the inventory, of the height resolver, of the checks on imported content
\* and of the checks on the inventory's own data
Raised ==
    { ErrorValue("StashError", "Connectivity", ErrorValue("E1", io, None)) : io \in IoErrors }
    \cup { ErrorValue("StashError", "InternalInconsistency",
                      ErrorValue("StashInconsistency", w, None)) :
             w \in {"OperationAbsent", "BundleAbsent"} }
    \cup { ErrorValue("InventoryDataError", "Connectivity", ErrorValue("E", io, None)) :
             io \in IoErrors }
    \cup { ErrorValue("InventoryError", "Connectivity", ErrorValue("E", io, None)) :
             io \in IoErrors }
    \cup { ErrorValue("Box<dyn Error>", io, None) : io \in IoErrors }
    \cup { ErrorValue("validation::Status", "failures", None),
           ErrorValue("confinement::Error", "Oversize", None),
           ErrorValue("IfaceImplError", "UnknownSchema", None),
           ErrorValue("IfaceImplError", "UnknownIface", None),
           ErrorValue("RevealError", "mismatch", None),
           ErrorValue("MergeRevealError", "mismatch", None),
           ErrorValue("mpc::InvalidProof", "invalid", None),
           ErrorValue("StashInconsistency", "OperationAbsent", None),
           ErrorValue("ConsumeError", "InvalidBundle", None) }
    \cup { ErrorValue("DataError", v, None) : v \in DataErrorUnits }
    \cup { ErrorValue("InventoryInconsistency", v, None) : v \in InconsistencyUnits }

\* DataError: the #[from] conversions
DataErrorFrom ==
    {"validation::Status", "RevealError", "MergeRevealError", "confinement::Error",
     "IfaceImplError", "Box<dyn Error>"}

DataError_from(x) ==
    ErrorValue("DataError",
               CASE x.type = "validation::Status" -> "Invalid"
                 [] x.type = "RevealError"        -> "Reveal"
                 [] x.type = "MergeRevealError"   -> "Merge"
                 [] x.type = "confinement::Error" -> "Confinement"
                 [] x.type = "IfaceImplError"     -> "IfaceImpl"
                 [] x.type = "Box<dyn Error>"     -> "HeightResolver",
               x)

\* InventoryInconsistency: the #[from] conversions
InconsistencyFrom == {"mpc::InvalidProof", "RevealError", "StashInconsistency"}

InventoryInconsistency_from(x) ==
    CASE x.type = "mpc::InvalidProof"  -> ErrorValue("InventoryInconsistency", "UnrelatedAnchor", None)
      [] x.type = "RevealError"        -> ErrorValue("InventoryInconsistency", "BundleReveal", x)
      [] x.type = "StashInconsistency" -> ErrorValue("InventoryInconsistency", "Stash", x)

\* InventoryDataError: the #[from] conversions, all into its DataError variant
InventoryDataErrorFrom ==
    {"DataError", "validation::Status", "confinement::Error", "IfaceImplError",
     "RevealError", "MergeRevealError"}

InventoryDataError_from(x) ==
    ErrorValue("InventoryDataError", "DataError",
               IF x.type = "DataError" THEN x ELSE DataError_from(x))

\* E2: From<E1>, the conversion of the stash's error into the inventory's
into_E(e) == ErrorValue("E", "From<E1>", e)

\* faulty variant: every error of the stash is reported as a connectivity error
from_StashError_Flat(err) ==
    ErrorValue("InventoryError", "Connectivity", into_E(err.inner))

\* From<StashError<E1>> for InventoryError<E2>
from_StashError(err) ==
    CASE err.variant = "Connectivity" ->
            ErrorValue("InventoryError", "Connectivity", into_E(err.inner))
      [] err.variant = "InternalInconsistency" ->
            ErrorValue("InventoryError", "InternalInconsistency",
                       ErrorValue("InventoryInconsistency", "Stash", err.inner))

\* From<InventoryDataError<E>> for InventoryError<E>
from_InventoryDataError(err) ==
    CASE err.variant = "Connectivity" ->
            ErrorValue("InventoryError", "Connectivity", err.inner)
      [] err.variant = "DataError" ->
            ErrorValue("InventoryError", "DataError", err.inner)

\* InventoryError: the #[from] conversions and the two From impls
InventoryErrorFrom ==
    {"ConsumeError", "DataError", "confinement::Error", "InventoryInconsistency",
     "mpc::InvalidProof", "RevealError", "StashInconsistency", "StashError",
     "InventoryDataError"}

InventoryError_from(x) ==
    CASE x.type = "ConsumeError"           -> ErrorValue("InventoryError", "Consume", x)
      [] x.type = "DataError"              -> ErrorValue("InventoryError", "DataError", x)
      [] x.type = "confinement::Error"     ->
            ErrorValue("InventoryError", "DataError", DataError_from(x))
      [] x.type = "InventoryInconsistency" ->
            ErrorValue("InventoryError", "InternalInconsistency", x)
      [] x.type \in InconsistencyFrom      ->
            ErrorValue("InventoryError", "InternalInconsistency",
                       InventoryInconsistency_from(x))
      [] x.type = "StashError"             -> from_StashError(x)
      [] x.type = "InventoryDataError"     -> from_InventoryDataError(x)

\* the error as it stands
Current == errs[Len(errs)]

\* an operation of the inventory fails
ErrorRaise ==
    /\ epc = "idle"
    /\ \E x \in Raised : errs' = <<x>>
    /\ epc' = "failed"
    /\ UNCHANGED <<consumeVars, composeVars, recomposeVars, consignVars, ifaceVars>>

\* a `?` or an into() on the way to the caller: into DataError
IntoDataError ==
    /\ epc = "failed"
    /\ Current.type \in DataErrorFrom
    /\ errs' = Append(errs, DataError_from(Current))
    /\ UNCHANGED <<epc, consumeVars, composeVars, recomposeVars, consignVars, ifaceVars>>

\* into InventoryInconsistency
IntoInventoryInconsistency ==
    /\ epc = "failed"
    /\ Current.type \in InconsistencyFrom
    /\ errs' = Append(errs, InventoryInconsistency_from(Current))
    /\ UNCHANGED <<epc, consumeVars, composeVars, recomposeVars, consignVars, ifaceVars>>

\* into InventoryDataError, the error type of the import of schemata and interfaces
IntoInventoryDataError ==
    /\ epc = "failed"
    /\ Current.type \in InventoryDataErrorFrom
    /\ errs' = Append(errs, InventoryDataError_from(Current))
    /\ UNCHANGED <<epc, consumeVars, composeVars, recomposeVars, consignVars, ifaceVars>>

\* into InventoryError
IntoInventoryError ==
    /\ epc = "failed"
    /\ Current.type \in InventoryErrorFrom
    /\ errs' = Append(errs, InventoryError_from(Current))
    /\ UNCHANGED <<epc, consumeVars, composeVars, recomposeVars, consignVars, ifaceVars>>

\* the operation returns Err(..) of its error type, InventoryError
ErrorReturn ==
    /\ epc = "failed"
    /\ Current.type = "InventoryError"
    /\ epc' = "returned"
    /\ UNCHANGED <<errs, consumeVars, composeVars, recomposeVars, consignVars, ifaceVars>>

(***************************************************************************)
(* The RGB25 interface, and a contract read through its wrapper            *)
(***************************************************************************)
\* no contract is looked at through an interface
NoGlobal == [f \in {} |-> << >>]

\* rgb25(): the interface definition.  Occurrences and requirements are kept
\* by name; types, metadata, valencies and error codes are left out.
rgb25 ==
    [name |-> "RGB25",
     global_state |->
        [f \in {"name", "details", "precision", "terms", "issuedSupply", "burnedSupply"} |->
            CASE f = "details"      -> "optional"
              [] f = "burnedSupply" -> "none_or_many"
              [] OTHER              -> "required"],
     assignments |->
        [f \in {"assetOwner", "burnRight"} |->
            IF f = "assetOwner"
            THEN [owned |-> "Amount", public |-> FALSE, req |-> "OneOrMore"]
            ELSE [owned |-> "Rights", public |-> TRUE, req |-> "NoneOrMore"]],
     genesis |->
        [global |->
            [f \in {"name", "details", "precision", "terms", "issuedSupply"} |->
                IF f = "details" THEN "NoneOrOnce" ELSE "Once"],
         assignments |-> [f \in {"assetOwner"} |-> "OnceOrMore"]],
     transitions |->
        [t \in {"Transfer", "Burn"} |->
            IF t = "Transfer"
            THEN [optional |-> FALSE,
                  globals |-> [f \in {} |-> "Once"],
                  inputs |-> [f \in {"assetOwner"} |-> "OnceOrMore"],
                  assignments |-> [f \in {"assetOwner"} |-> "OnceOrMore"],
                  default_assignment |-> Some("beneficiary")]
            ELSE [optional |-> TRUE,
                  globals |-> [f \in {"burnedSupply"} |-> "Once"],
                  inputs |-> [f \in {"burnRight"} |-> "Once"],
                  assignments |-> [f \in {"burnRight"} |-> "NoneOrOnce"],
                  default_assignment |-> None]],
     default_operation |-> Some("Transfer")]

\* how many values an occurrence admits, up to two
Occurs(occurrence) ==
    CASE occurrence = "Once"       -> {1}
      [] occurrence = "NoneOrOnce" -> {0, 1}
      [] occurrence = "OnceOrMore" -> {1, 2}
      [] OTHER                     -> {0, 1, 2}

\* The global states of the contracts that conform to the interface: the
\* declared fields and no other; genesis sets each the number of times the
\* interface says, and every Burn adds one value of burnedSupply.
Globals ==
    { g \in [DOMAIN rgb25.global_state -> {<< >>, <<1>>, <<2>>, <<1, 1>>, <<1, 2>>}] :
        /\ \A f \in DOMAIN rgb25.genesis.global :
              Len(g[f]) \in Occurs(rgb25.genesis.global[f])
        /\ \A f \in {"name", "details", "terms"} : \A k \in 1..Len(g[f]) : g[f][k] = 1 }

\* ContractIface::global: the values of a global state field, by the name the
\* interface implementation gives it; a name the interface does not declare
\* is unknown to the implementation
ContractIface_global(g, field) ==
    IF field \in DOMAIN g
    THEN [ok |-> TRUE, v |-> g[field]]
    ELSE [ok |-> FALSE, err |-> <<"FieldNameUnknown", field>>]

\* Result::expect
expect(res, msg) ==
    IF res.ok THEN [tag |-> "Ok", v |-> res.v] ELSE [tag |-> "panic", msg |-> msg]

\* a call through the interface, and what it gave
Called(call, args, result) == Some([call |-> call, args |-> args, result |-> result])

\* Rgb25::name
Rgb25_name ==
    /\ global # NoGlobal
    /\ LET strict_val == expect(ContractIface_global(global, "name"),
                                "RGB25 interface requires global name")
       IN  ires' = Called("name", << >>,
                      IF strict_val.tag = "Ok"
                      THEN [tag |-> "Ok", v |-> strict_val.v[1]] ELSE strict_val)
    /\ UNCHANGED <<global, consumeVars, composeVars, recomposeVars, consignVars, errorVars>>

\* Rgb25::details
Rgb25_details ==
    /\ global # NoGlobal
    /\ LET strict_val == expect(ContractIface_global(global, "details"),
                                "RGB25 interface requires global details")
       IN  ires' = Called("details", << >>,
                      IF strict_val.tag # "Ok" THEN strict_val
                      ELSE IF Len(strict_val.v) = 0 THEN [tag |-> "Ok", v |-> None]
                      ELSE [tag |-> "Ok", v |-> Some(strict_val.v[1])])
    /\ UNCHANGED <<global, consumeVars, composeVars, recomposeVars, consignVars, errorVars>>

\* Rgb25::precision
Rgb25_precision ==
    /\ global # NoGlobal
    /\ LET strict_val == expect(ContractIface_global(global, "precision"),
                                "RGB25 interface requires global precision")
       IN  ires' = Called("precision", << >>,
                      IF strict_val.tag = "Ok"
                      THEN [tag |-> "Ok", v |-> strict_val.v[1]] ELSE strict_val)
    /\ UNCHANGED <<global, consumeVars, composeVars, recomposeVars, consignVars, errorVars>>

\* Iterator::sum of amounts
RECURSIVE sum(_)
sum(sq) == IF sq = << >> THEN 0 ELSE Head(sq) + sum(Tail(sq))

\* Rgb25::total_issued_supply
Rgb25_total_issued_supply ==
    /\ global # NoGlobal
    /\ LET vals == expect(ContractIface_global(global, "issuedSupply"),
                          "RGB25 interface requires global issuedSupply")
       IN  ires' = Called("total_issued_supply", << >>,
                      IF vals.tag = "Ok" THEN [tag |-> "Ok", v |-> sum(vals.v)] ELSE vals)
    /\ UNCHANGED <<global, consumeVars, composeVars, recomposeVars, consignVars, errorVars>>

\* Rgb25::total_burned_supply: unwrap_or_default, an unknown field is no value
Rgb25_total_burned_supply ==
    /\ global # NoGlobal
    /\ LET res  == ContractIface_global(global, "burnedSupply")
           vals == IF res.ok THEN res.v ELSE << >>
       IN  ires' = Called("total_burned_supply", << >>, [tag |-> "Ok", v |-> sum(vals)])
    /\ UNCHANGED <<global, consumeVars, composeVars, recomposeVars, consignVars, errorVars>>

\* Rgb25::contract_data
Rgb25_contract_data ==
    /\ global # NoGlobal
    /\ LET strict_val == expect(ContractIface_global(global, "data"),
                                "RGB25 interface requires global data")
       IN  ires' = Called("contract_data", << >>,
                      IF strict_val.tag = "Ok"
                      THEN [tag |-> "Ok", v |-> strict_val.v[1]] ELSE strict_val)
    /\ UNCHANGED <<global, consumeVars, composeVars, recomposeVars, consignVars, errorVars>>

\* TransitionBuilder::default_assignment: the default the interface declares
\* for the transition the builder is for
default_assignment(iface, transition_name) ==
    iface.transitions[transition_name].default_assignment

\* TransitionBuilder::assignments_type under an implementation of the
\* interface: the implementation names the assignments the interface declares
iface_assignments_type(iface, field) ==
    IF field \in DOMAIN iface.assignments THEN Some(field) ELSE None

\* compose_deterministic on a contract under RGB25, up to the resolution of
\* the target assignment: the builder of the named transition or of the
\* default one, the assignment name of the invoice or the declared default,
\* and its assignment type
ResolveAssignment ==
    /\ global # NoGlobal
    /\ \E operation \in {None, Some("Transfer"), Some("Burn"), Some("Issue")},
          assignment \in {None, Some("assetOwner"), Some("burnRight")} :
        LET transition_name == IF operation.some THEN operation
                               ELSE rgb25.default_operation
            assignment_name == IF assignment.some THEN assignment
                               ELSE default_assignment(rgb25, transition_name.v)
            result ==
                IF ~transition_name.some
                      \/ transition_name.v \notin DOMAIN rgb25.transitions
                THEN [tag |-> "panic", msg |-> "internal inconsistency"]
                ELSE IF ~assignment_name.some
                THEN [tag |-> "NoDefaultAssignment"]
                ELSE IF ~iface_assignments_type(rgb25, assignment_name.v).some
                THEN [tag |-> "InvalidStateField", name |-> assignment_name.v]
                ELSE [tag |-> "Ok",
                      v |-> iface_assignments_type(rgb25, assignment_name.v).v]
        IN  ires' = Called("assignment", <<operation, assignment>>, result)
    /\ UNCHANGED <<global, consumeVars, composeVars, recomposeVars, consignVars, errorVars>>

ErrorIdle ==
    /\ epc = "idle"
    /\ errs = << >>

IfaceIdle ==
    /\ global = NoGlobal
    /\ ires = None

ConsignIdle ==
    /\ gpc = "idle"
    /\ entry = "none"
    /\ consign_outputs = << >>
    /\ secret_seals = << >>
    /\ opouts = << >>
    /\ bundled_witnesses = << >>
    /\ transitions = {}
    /\ terminals = << >>
    /\ ids = << >>
    /\ gres = None
    /\ eres = None
    /\ gfirst = None

\* a stash that knows no transition
NoStash == [history |-> Chain, known |-> {}, concealed |-> {}, public |-> {}]

InitStorage ==
    /\ witnesses = {}
    /\ bundles = {}

ConsumeIdle ==
    /\ cpc = "idle"
    /\ fascia = NoFascia
    /\ todo = << >>
    /\ cres = None
    /\ pre = [witnesses |-> {}, bundles |-> {}]
    /\ nconsumes = 0

NoBuilder == NewBuilder(0, "none")

ComposeIdle ==
    /\ ppc = "idle"
    /\ prev_outputs = {}
    /\ invoice = NoInvoice
    /\ beneficiary_vout = None
    /\ assignment_id = 0
    /\ beneficiary = None
    /\ main_builder = NoBuilder
    /\ main_inputs = << >>
    /\ sum_inputs = 0
    /\ data_inputs = << >>
    /\ queue = << >>
    /\ main_transition = None
    /\ spent_state = {}
    /\ blank_id = 0
    /\ blank_builder = NoBuilder
    /\ blank_outputs = << >>
    /\ blanks = << >>
    /\ pres = None
    /\ lookups = << >>
    /\ alloc_calls = << >>
    /\ blind_calls = << >>

InitConsume ==
    /\ InitStorage
    /\ stash = NoStash
    /\ ConsignIdle
    /\ state = {}
    /\ ConsumeIdle
    /\ ComposeIdle
    /\ first = None
    /\ ErrorIdle
    /\ IfaceIdle

NextConsume ==
    \/ ConsumeCall
    \/ ConsumeBundle
    \/ ConsumeOk
    \/ ConsumeReturn

SpecConsume == InitConsume /\ [][NextConsume]_vars

InitCompose ==
    /\ InitStorage
    /\ stash = NoStash
    /\ ConsignIdle
    /\ state \in Inventories
    /\ ConsumeIdle
    /\ ComposeIdle
    /\ first = None
    /\ ErrorIdle
    /\ IfaceIdle

NextCompose ==
    \/ ComposeCall
    \/ ComposePre
    \/ ComposeBuilder
    \/ ComposeBeneficiary
    \/ ComposeInput
    \/ ComposeFulfil
    \/ ComposeSpent
    \/ ComposeBlankBegin
    \/ ComposeBlankItem
    \/ ComposeBlankEnd
    \/ ComposeReturn

SpecCompose == InitCompose /\ [][NextCompose]_vars

(***************************************************************************)
(* A caller that composes twice on the same inventory with the same        *)
(* arguments and the same pure callbacks                                   *)
(***************************************************************************)
\* results a storage answer alone decides: the storage port failed, or the
\* schema lacks what was asked of it
StorageRefused(r) == r.tag \in {"Connectivity", "NoIfaceImpl", "NoDefaultAssignment"}

\* the first call has returned with a result the storage did not refuse: its
\* arguments and what it gave are kept, and compose_deterministic is entered
\* again with fresh locals
ComposeAgain ==
    /\ ppc = "done"
    /\ ~first.some
    /\ ~StorageRefused(pres.v)
    /\ first' = Some([prev_outputs |-> prev_outputs, invoice |-> invoice,
                      beneficiary_vout |-> beneficiary_vout, pres |-> pres.v,
                      alloc_calls |-> alloc_calls, blind_calls |-> blind_calls])
    /\ ppc' = "idle"
    /\ prev_outputs' = {}
    /\ invoice' = NoInvoice
    /\ beneficiary_vout' = None
    /\ assignment_id' = 0
    /\ beneficiary' = None
    /\ main_builder' = NoBuilder
    /\ main_inputs' = << >>
    /\ sum_inputs' = 0
    /\ data_inputs' = << >>
    /\ queue' = << >>
    /\ main_transition' = None
    /\ spent_state' = {}
    /\ blank_id' = 0
    /\ blank_builder' = NoBuilder
    /\ blank_outputs' = << >>
    /\ blanks' = << >>
    /\ pres' = None
    /\ lookups' = << >>
    /\ alloc_calls' = << >>
    /\ blind_calls' = << >>
    /\ UNCHANGED <<state, consumeVars, consignVars, errorVars, ifaceVars>>

\* the allocator is a pure function: asked again for the same contract and
\* assignment type, it answers the same
SameAllocator(calls1, calls2) ==
    \A i \in 1..Len(calls1), j \in 1..Len(calls2) :
        (calls1[i].id = calls2[j].id /\ calls1[i].ty = calls2[j].ty)
            => calls1[i].ret = calls2[j].ret

\* what the second call has read of its arguments is what the first call was
\* given
SameCall ==
    first.some =>
        /\ ppc # "idle" => prev_outputs = first.v.prev_outputs
        /\ \A f \in DOMAIN invoice :
              \/ invoice[f] = Unread
              \/ first.v.invoice[f] = Unread
              \/ invoice[f] = first.v.invoice[f]
        /\ (invoice.beneficiary # Unread /\ first.v.invoice.beneficiary # Unread)
              => beneficiary_vout = first.v.beneficiary_vout
        /\ SameAllocator(first.v.alloc_calls, alloc_calls)

\* the inventories the two calls are made on: all known state sits on one output
InitRecompose ==
    /\ InitCompose
    /\ \A i \in state : i.output = 1

NextRecompose ==
    \/ ComposeAgain
    \/ ComposeCall /\ SameCall'
    \/ ComposePre /\ SameCall'
    \/ ComposeBuilder /\ SameCall'
    \/ ComposeBeneficiary /\ SameCall'
    \/ ComposeInput /\ SameCall'
    \/ ComposeFulfil /\ SameCall'
    \/ ComposeSpent /\ SameCall'
    \/ ComposeBlankBegin /\ SameCall'
    \/ ComposeBlankItem /\ SameCall'
    \/ ComposeBlankEnd /\ SameCall'
    \/ ComposeReturn /\ SameCall'

SpecRecompose == InitRecompose /\ [][NextRecompose]_vars

(***************************************************************************)
(* A caller that exports a contract or makes a transfer                    *)
(***************************************************************************)
InitConsign ==
    /\ InitStorage
    /\ state = {}
    /\ ConsumeIdle
    /\ ComposeIdle
    /\ first = None
    /\ ErrorIdle
    /\ IfaceIdle
    /\ stash \in Stashes
    /\ ConsignIdle

NextConsign ==
    \/ ConsignCall
    \/ ConsignOpout
    \/ ConsignInputs
    \/ ConsignAncestor
    \/ ConsignAssemble
    \/ ConsignReturn

SpecConsign == InitConsign /\ [][NextConsign]_vars

\* the call runs on: a step that can be taken is taken.  The stashes are
\* those without a concealed seal: a concealed seal ends the call before the
\* worklist is started.
InitConsignLive == InitConsign /\ stash.concealed = {}

SpecConsignLive == InitConsignLive /\ [][NextConsign]_vars /\ WF_vars(NextConsign)

(***************************************************************************)
(* A caller that asks for the same consignment twice, the lists of the     *)
(* second call naming the elements of the first in any order and number    *)
(***************************************************************************)
\* the storage refused an answer
ConsignRefused(r) == r.tag = "InventoryError"

\* the first call returned a consignment: its arguments and result are kept,
\* the locals of consign are those of a new call; the stash is as it was
ConsignAgain ==
    /\ gpc = "done"
    /\ ~gfirst.some
    /\ eres.v.tag = "Consignment"
    /\ gfirst' = Some([entry           |-> entry,
                       consign_outputs |-> consign_outputs,
                       secret_seals    |-> secret_seals,
                       eres            |-> eres.v])
    /\ gpc' = "idle"
    /\ entry' = "none"
    /\ consign_outputs' = << >>
    /\ secret_seals' = << >>
    /\ opouts' = << >>
    /\ bundled_witnesses' = << >>
    /\ transitions' = {}
    /\ terminals' = << >>
    /\ ids' = << >>
    /\ gres' = None
    /\ eres' = None
    /\ UNCHANGED <<stash, consumeVars, composeVars, recomposeVars, errorVars, ifaceVars>>

\* the second call names the same entry point and the same elements
SameLists ==
    (gfirst.some /\ gpc # "idle") =>
        /\ entry = gfirst.v.entry
        /\ Elements(consign_outputs) = Elements(gfirst.v.consign_outputs)
        /\ Elements(secret_seals) = Elements(gfirst.v.secret_seals)

InitReconsign == InitConsign

NextReconsign ==
    \/ ConsignAgain
    \/ ConsignCall /\ SameLists'
    \/ ConsignOpout
    \/ ConsignInputs
    \/ ConsignAncestor
    \/ ConsignAssemble
    \/ ConsignReturn

SpecReconsign == InitReconsign /\ [][NextReconsign]_vars

(***************************************************************************)
(* A failure inside an operation that returns InventoryError               *)
(***************************************************************************)
InitErrors == InitConsume

NextErrors ==
    \/ ErrorRaise
    \/ IntoDataError
    \/ IntoInventoryInconsistency
    \/ IntoInventoryDataError
    \/ IntoInventoryError
    \/ ErrorReturn

SpecErrors == InitErrors /\ [][NextErrors]_vars

(***************************************************************************)
(* A contract under RGB25, read through the wrapper and paid by invoice    *)
(***************************************************************************)
InitRgb25 ==
    /\ InitStorage
    /\ stash = NoStash
    /\ ConsignIdle
    /\ state = {}
    /\ ConsumeIdle
    /\ ComposeIdle
    /\ first = None
    /\ ErrorIdle
    /\ global \in Globals
    /\ ires = None

NextRgb25 ==
    \/ Rgb25_name
    \/ Rgb25_details
    \/ Rgb25_precision
    \/ Rgb25_total_issued_supply
    \/ Rgb25_total_burned_supply
    \/ Rgb25_contract_data
    \/ ResolveAssignment

SpecRgb25 == InitRgb25 /\ [][NextRgb25]_vars

(***************************************************************************)
(* Claims about consume                                                    *)
(***************************************************************************)
ConsumeDone == cpc = "done" /\ cres.some

\* a bundle with a revealed transition that no input of its input map names
BadBundle(b) ==
    \E t \in b.known_transitions : \A p \in b.input_map : p[2] # t

BadContracts(f) == { c \in FasciaContracts : f.bundles[c].some /\ BadBundle(f.bundles[c].v) }

FirstBad(f) == CHOOSE c \in BadContracts(f) : \A d \in BadContracts(f) : c <= d

\* the anchor and every bundle of the fascia are in storage
FasciaCommitted(f) ==
    /\ SealWitness(f.witness_id, f.anchor) \in witnesses
    /\ \A c \in FasciaContracts : f.bundles[c].some =>
          \E s \in bundles :
              /\ s.bundle_id = f.bundles[c].v.input_map
              /\ f.bundles[c].v.known_transitions \subseteq s.known_transitions

StorageAsBefore == witnesses = pre.witnesses /\ bundles = pre.bundles

\* C1: consume is all-or-nothing: once consume has returned, either it
\* returned Ok and the anchor and every bundle of the fascia are committed, or
\* it returned an error and storage is exactly what it was before the call.
C1_ConsumeAllOrNothing ==
    ConsumeDone =>
        IF cres.v.tag = "Ok" THEN FasciaCommitted(fascia) ELSE StorageAsBefore

\* C2: consume returns InvalidBundle, naming the contract id and the bundle id
\* of the first offending bundle, for a fascia in which some bundle has a
\* known transition that is not a value of its input map (unless the storage
\* collaborator failed before the check reached that bundle, which is reported
\* as such and never as success); a fascia whose bundles all satisfy the
\* inclusion is never rejected with InvalidBundle.
C2_InvalidBundleRejected ==
    ConsumeDone =>
        IF BadContracts(fascia) # {}
        THEN /\ cres.v.tag \in {"InvalidBundle", "Connectivity"}
             /\ cres.v.tag = "InvalidBundle" =>
                   /\ cres.v.contract_id = FirstBad(fascia)
                   /\ cres.v.bundle_id = fascia.bundles[FirstBad(fascia)].v.input_map
        ELSE cres.v.tag # "InvalidBundle"

\* C2 witness: the second bundle of a fascia is the offending one and consume
\* has returned InvalidBundle for it, after folding the first.
C2_Witness ==
    /\ ConsumeDone
    /\ cres.v.tag = "InvalidBundle"
    /\ cres.v.contract_id = 2
    /\ fascia.bundles[1].some
    /\ \E s \in bundles : s.bundle_id = fascia.bundles[1].v.input_map

(***************************************************************************)
(* Claims about compose_deterministic                                      *)
(***************************************************************************)
ComposeDone == ppc = "done" /\ pres.some

BatchReturned == ComposeDone /\ pres.v.tag = "Batch"

\* the state the invoice's contract has on the candidate previous outputs
OwnItems ==
    { i \in state : invoice.contract.some /\ i.contract = invoice.contract.v
                    /\ i.output \in prev_outputs }

RECURSIVE ItemsSum(_)
ItemsSum(S) ==
    IF S = {} THEN 0
    ELSE LET i == CHOOSE x \in S : TRUE IN i.st.value + ItemsSum(S \ {i})

RECURSIVE StatesSum(_)
StatesSum(sq) == IF sq = << >> THEN 0 ELSE Head(sq).st.value + StatesSum(Tail(sq))

\* the sum of the target-type amounts found on the candidate previous outputs
StoredSum ==
    ItemsSum({ i \in OwnItems : i.opout.ty = assignment_id /\ i.st.kind = "Amount" })

MainInputs  == pres.v.main.transition.inputs
MainOutputs == pres.v.main.transition.assignments

\* the outputs of the main transition that have the target assignment type
TargetOutputs == SelectSeq(MainOutputs, LAMBDA x : x.ty = assignment_id)

FungibleInvoice == invoice.owned_state.some /\ invoice.owned_state.v.kind = "Amount"
DataInvoice     == invoice.owned_state.some /\ invoice.owned_state.v.kind = "Data"

\* C3: conservation: in every batch returned for a fungible invoice, the
\* amounts of the target-type inputs of the main transition sum to the same as
\* the amounts of its target-type outputs.
C3_Conservation ==
    (BatchReturned /\ FungibleInvoice) =>
        StatesSum(SelectSeq(MainInputs,
                            LAMBDA x : x.opout.ty = assignment_id /\ x.st.kind = "Amount"))
          = StatesSum(SelectSeq(MainOutputs,
                                LAMBDA x : x.ty = assignment_id /\ x.st.kind = "Amount"))

\* C3 witness: a batch whose main transition consumes two target-type amounts
\* and pays the beneficiary and a change.
C3_Witness ==
    /\ BatchReturned /\ FungibleInvoice
    /\ Cardinality({ i \in OwnItems : i.opout.ty = assignment_id }) = 2
    /\ Len(TargetOutputs) = 2
    /\ invoice.owned_state.v.value > 0

\* C4: for a fungible invoice whose requested amount exceeds the sum of the
\* target-type amounts on the candidate outputs, composition that comes to
\* fulfil the invoice fails with InsufficientState; and no batch is returned.
C4_InsufficientState ==
    (ComposeDone /\ FungibleInvoice /\ StoredSum < invoice.owned_state.v.value) =>
        pres.v = [tag |-> "InsufficientState"]

\* C4 witness: the contract has target-type state on the candidate outputs,
\* less than requested, and compose has returned.
C4_Witness ==
    /\ ComposeDone /\ FungibleInvoice
    /\ StoredSum > 0
    /\ StoredSum < invoice.owned_state.v.value
    /\ pres.v.tag = "InsufficientState"

\* allocator invocations made for an output of the target type of the
\* invoice's contract
ChangeAllocs ==
    SelectSeq(alloc_calls,
              LAMBDA c : c.id = invoice.contract.v /\ c.ty = assignment_id)

\* C5: a fulfilled fungible invoice: the last target-type output of the main
\* transition is the beneficiary's, with the requested amount; there is one
\* more target-type output, the change of (sum - requested) at a vout the
\* allocator gave, exactly when the sum exceeds the request; otherwise there is
\* no other target-type output and the allocator was not asked for one.
C5_BeneficiaryAndChange ==
    (BatchReturned /\ FungibleInvoice) =>
        LET amt  == invoice.owned_state.v.value
            outs == TargetOutputs
            last == outs[Len(outs)]
        IN  /\ Len(outs) >= 1
            /\ last.seal = beneficiary
            /\ last.st.kind = "Amount" /\ last.st.value = amt
            /\ IF StoredSum > amt
               THEN /\ Len(outs) = 2
                    /\ outs[1].st.kind = "Amount"
                    /\ outs[1].st.value = StoredSum - amt
                    /\ Len(ChangeAllocs) = 1
                    /\ outs[1].seal.kind = "Revealed"
                    /\ ChangeAllocs[1].ret = Some(outs[1].seal.vout)
               ELSE /\ StoredSum = amt
                    /\ Len(outs) = 1
                    /\ ChangeAllocs = << >>

\* C5 witness: scenario with change, the sum of two inputs exceeding the request
C5_Witness ==
    /\ BatchReturned /\ FungibleInvoice
    /\ StoredSum = 3
    /\ invoice.owned_state.v.value = 2
    /\ Len(main_inputs) = 2

\* C5 second case: the sum equals the request
C5_WitnessEqual ==
    /\ BatchReturned /\ FungibleInvoice
    /\ StoredSum = invoice.owned_state.v.value
    /\ StoredSum > 0

\* the contracts other than the invoice's with state on a candidate output
OtherContracts ==
    { c \in ContractIds :
        /\ c # invoice.contract.v
        /\ \E i \in state : i.contract = c /\ i.output \in prev_outputs }

ItemsOf(c) == { i \in state : i.contract = c /\ i.output \in prev_outputs }

SeqRange(sq) == { sq[k] : k \in 1..Len(sq) }

\* a blank transition for contract c: consumes exactly the state of c on the
\* candidate outputs and assigns each item again, type and state unchanged, to
\* a seal on a vout the allocator returned for (c, type)
IsBlankFor(b, c) ==
    LET t == b.transition
    IN  /\ t.contract_id = c
        /\ Len(t.inputs) = Cardinality(ItemsOf(c))
        /\ SeqRange(t.inputs) = { [opout |-> i.opout, st |-> i.st] : i \in ItemsOf(c) }
        /\ SeqRange(b.inputs) = { i.output : i \in ItemsOf(c) }
        /\ Len(t.assignments) = Len(t.inputs)
        /\ \A k \in 1..Len(t.inputs) :
              /\ t.assignments[k].ty = t.inputs[k].opout.ty
              /\ t.assignments[k].st = t.inputs[k].st
              /\ t.assignments[k].seal.kind = "Revealed"
              /\ \E n \in 1..Len(alloc_calls) :
                    /\ alloc_calls[n].id = c
                    /\ alloc_calls[n].ty = t.assignments[k].ty
                    /\ alloc_calls[n].ret = Some(t.assignments[k].seal.vout)

\* C6: cross-contract protection: the blanks of a returned batch are exactly
\* one blank transition for every other contract with state on a candidate
\* output, and none for the invoice's contract.
C6_Blanks ==
    BatchReturned =>
        LET bs == pres.v.blanks
        IN  /\ Len(bs) = Cardinality(OtherContracts)
            /\ \A c \in OtherContracts : \E k \in 1..Len(bs) : IsBlankFor(bs[k], c)
            /\ \A k \in 1..Len(bs) : bs[k].transition.contract_id # invoice.contract.v

\* C6 witness: the invoice's contract shares the candidate outputs with two
\* other contracts; the batch has their two blanks.
C6_Witness ==
    /\ BatchReturned
    /\ OwnItems # {}
    /\ Cardinality(OtherContracts) = 2
    /\ Len(pres.v.blanks) = 2

\* C6 second witness: one other contract with state on two candidate outputs
C6_WitnessTwoOutputs ==
    /\ BatchReturned
    /\ Len(pres.v.blanks) = 1
    /\ Cardinality(SeqRange(pres.v.blanks[1].inputs)) = 2

NothingAsked == lookups = << >> /\ alloc_calls = << >> /\ blind_calls = << >>

Expired == invoice.expiry.some /\ invoice.expiry.v < Now

\* C7: the three preconditions come first and in order: an expired invoice
\* gives InvoiceExpired, else one without contract NoContract, else one without
\* interface NoIface; and then nothing was looked up in storage and no callback
\* was invoked.
C7_Preconditions ==
    ComposeDone =>
        /\ Expired => (pres.v = [tag |-> "InvoiceExpired"] /\ NothingAsked)
        /\ (~Expired /\ ~invoice.contract.some) =>
              (pres.v = [tag |-> "NoContract"] /\ NothingAsked)
        /\ (~Expired /\ invoice.contract.some /\ ~invoice.iface.some) =>
              (pres.v = [tag |-> "NoIface"] /\ NothingAsked)
        /\ (~Expired /\ invoice.contract.some /\ invoice.iface.some) =>
              pres.v.tag \notin {"InvoiceExpired", "NoContract", "NoIface"}

\* C7 witness: an expired invoice that names no contract either
C7_Witness ==
    /\ ComposeDone
    /\ Expired /\ ~invoice.contract.some /\ ~invoice.iface.some
    /\ state # {} /\ prev_outputs # {}

\* the (kind, value) of the states of a sequence of inputs or outputs
Values(sq) == [k \in 1..Len(sq) |-> [kind |-> sq[k].st.kind, value |-> sq[k].st.value]]

\* C8: the main transition of a returned batch takes as inputs exactly the
\* state items of the invoice's contract on the candidate outputs, of every
\* type; the consumed outputs are the candidate outputs carrying them; and the
\* inputs of a type other than the target type are all assigned again, with
\* that type and the same state value.
C8_MainInputs ==
    BatchReturned =>
        /\ Len(MainInputs) = Cardinality(OwnItems)
        /\ SeqRange(MainInputs) = { [opout |-> i.opout, st |-> i.st] : i \in OwnItems }
        /\ SeqRange(pres.v.main.inputs) = { i.output : i \in OwnItems }
        /\ \A ty \in AssignmentTypes \ {assignment_id} :
              Values(SelectSeq(MainOutputs, LAMBDA x : x.ty = ty))
                = Values(SelectSeq(MainInputs, LAMBDA x : x.opout.ty = ty))

\* C8 witness: the contract has state of the target type and of another type
\* on the candidate outputs, and the target type is not the lowest
C8_Witness ==
    /\ BatchReturned
    /\ assignment_id = 2
    /\ \E i, j \in OwnItems : i.opout.ty = 1 /\ j.opout.ty = 2

\* a target-type data value equal to the requested allocation is on the
\* candidate outputs
AllocationFound ==
    \E i \in OwnItems :
        /\ i.opout.ty = assignment_id
        /\ i.st.kind = "Data"
        /\ i.st.value = invoice.owned_state.v.value

\* C9: a non-fungible invoice that composition comes to fulfil: without a
\* target-type data value equal to the requested allocation on the candidate
\* outputs the result is InsufficientState; a returned batch gives the
\* beneficiary exactly the requested allocation.
C9_NonFungible ==
    (ComposeDone /\ DataInvoice) =>
        /\ ~AllocationFound => pres.v = [tag |-> "InsufficientState"]
        /\ pres.v.tag = "Batch" =>
              /\ AllocationFound
              /\ Len(TargetOutputs) >= 1
              /\ LET last == TargetOutputs[Len(TargetOutputs)]
                 IN  /\ last.seal = beneficiary
                     /\ last.st.kind = "Data"
                     /\ last.st.value = invoice.owned_state.v.value

\* C9 witness: two data values of the target type are consumed and the one
\* requested goes to the beneficiary
C9_Witness ==
    /\ BatchReturned /\ DataInvoice
    /\ Len(data_inputs) = 2

\* C9 second witness: data values are there, but not the requested one
C9_WitnessRefused ==
    /\ ComposeDone /\ DataInvoice
    /\ data_inputs # << >>
    /\ pres.v.tag = "InsufficientState"

\* the velocity hint recorded for an assignment type in the supplement of the
\* contract, the default without one
SupplVelocity(id, ty) ==
    IF id = 1 /\ ty = 2 THEN "Seldom"
    ELSE IF id = 3 /\ ty = 1 THEN "Frequent"
    ELSE "Unspecified"

\* C10: the allocator is always asked with the velocity hint of the contract's
\* supplement for the assignment type (the default without one), and once it
\* has answered None composition has failed with NoBlankOrChange carrying that
\* hint and that assignment type; no batch is returned.
C10_NoBlankOrChange ==
    \A k \in 1..Len(alloc_calls) :
        LET call == alloc_calls[k]
        IN  /\ call.velocity = SupplVelocity(call.id, call.ty)
            /\ ~call.ret.some =>
                  /\ k = Len(alloc_calls)
                  /\ ComposeDone
                  /\ pres.v = [tag |-> "NoBlankOrChange",
                               velocity |-> SupplVelocity(call.id, call.ty),
                               ty |-> call.ty]

\* C10 witness: no output for a carried-forward state of the invoice's
\* contract, whose supplement gives the type a velocity hint
C10_Witness ==
    /\ ComposeDone
    /\ pres.v = [tag |-> "NoBlankOrChange", velocity |-> "Seldom", ty |-> 2]
    /\ alloc_calls[Len(alloc_calls)].id = 1

\* C10 further witnesses: no output for the change, and none for a blank
C10_WitnessChange ==
    /\ ComposeDone /\ FungibleInvoice
    /\ pres.v.tag = "NoBlankOrChange"
    /\ pres.v.ty = assignment_id

C10_WitnessBlank ==
    /\ ComposeDone
    /\ pres.v = [tag |-> "NoBlankOrChange", velocity |-> "Frequent", ty |-> 1]
    /\ alloc_calls[Len(alloc_calls)].id = 3

\* C11: the beneficiary's seal: a blinded-seal beneficiary is used as given, as
\* a concealed seal, with or without a beneficiary vout; a witness-vout
\* beneficiary with a vout becomes a revealed seal on that vout; a witness-vout
\* beneficiary without a vout makes composition fail with NoBeneficiaryOutput,
\* and nothing else does.
C11_BeneficiarySeal ==
    invoice.beneficiary.some =>
        LET b == invoice.beneficiary.v
            refused == ComposeDone /\ pres.v = [tag |-> "NoBeneficiaryOutput"]
        IN  /\ b.kind = "BlindedSeal" =>
                  /\ beneficiary = [kind |-> "Concealed", seal |-> b.seal]
                  /\ ~refused
            /\ (b.kind = "WitnessVout" /\ beneficiary_vout.some) =>
                  /\ beneficiary.kind = "Revealed"
                  /\ beneficiary.vout = beneficiary_vout.v
                  /\ ~refused
            /\ (b.kind = "WitnessVout" /\ ~beneficiary_vout.some) => refused
            /\ BatchReturned =>
                  \E k \in 1..Len(MainOutputs) : MainOutputs[k].seal = beneficiary

\* C11 witness: a batch paying to a blinded seal, composed without a vout
C11_Witness ==
    /\ BatchReturned
    /\ invoice.beneficiary.v = [kind |-> "BlindedSeal", seal |-> "secretB"]
    /\ ~beneficiary_vout.some

\* C11 further witnesses: a blinded seal with a vout supplied, a witness-vout
\* beneficiary paid at the supplied vout, and one refused for want of a vout
C11_WitnessBlindedVout ==
    /\ BatchReturned
    /\ invoice.beneficiary.v.kind = "BlindedSeal"
    /\ beneficiary_vout.some

C11_WitnessRevealed ==
    /\ BatchReturned
    /\ invoice.beneficiary.v.kind = "WitnessVout"
    /\ beneficiary.kind = "Revealed"

C11_WitnessRefused ==
    /\ ComposeDone
    /\ pres.v.tag = "NoBeneficiaryOutput"

\* a result without what the builders took from the schema: the interface
\* implementation a blank transition was built with
Composed(r) ==
    IF r.tag = "Batch"
    THEN [tag |-> "Batch", main |-> r.main,
          blanks |-> [k \in 1..Len(r.blanks) |->
                         [r.blanks[k] EXCEPT !.transition.iface = "any"]]]
    ELSE r

\* the (contract, assignment type) arguments of a sequence of allocator calls
CallArgs(calls) == [k \in 1..Len(calls) |-> <<calls[k].id, calls[k].ty>>]

\* C12: compose_deterministic is deterministic: the second of two calls on the
\* same inventory, with the same invoice, previous outputs, beneficiary vout
\* and pure callbacks, returns what the first returned, the blanks in the same
\* order, and invokes the callbacks with the same sequence of arguments.
C12_Deterministic ==
    (first.some /\ ComposeDone /\ ~StorageRefused(pres.v) /\ ~StorageRefused(first.v.pres)) =>
        /\ Composed(pres.v) = Composed(first.v.pres)
        /\ CallArgs(alloc_calls) = CallArgs(first.v.alloc_calls)
        /\ blind_calls = first.v.blind_calls

\* C12 witness: two calls with two other contracts on the candidate outputs
\* have both returned a batch, with the same blanks in the same order
C12_Witness ==
    /\ first.some /\ BatchReturned /\ first.v.pres.tag = "Batch"
    /\ Len(pres.v.blanks) = 2
    /\ Composed(pres.v) = Composed(first.v.pres)

(***************************************************************************)
(* Claims about consign                                                    *)
(***************************************************************************)
ConsignDone == gpc \in {"return", "done"} /\ gres.some

ConsignmentReturned == ConsignDone /\ gres.v.tag = "Consignment"

\* the outputs consign collects: public, matching a caller output seal, or
\* matching a caller secret seal
Collected ==
    { o \in known_opouts(stash) :
        \/ o \in stash.public
        \/ (o \notin stash.concealed /\ \E k \in 1..Len(consign_outputs) :
                                           consign_outputs[k] = seal_output(o))
        \/ \E k \in 1..Len(secret_seals) : secret_seals[k] = SecretSeal(o) }

CollectedOps == { o.op : o \in Collected } \ {ConsignContract}

\* the operations reachable from a set of operations by following inputs
RECURSIVE Ancestry(_)
Ancestry(S) ==
    LET more == S \cup UNION { Elements(stash.history.inputs[op]) :
                                  op \in S \ {ConsignContract} }
    IN  IF more = S THEN S ELSE Ancestry(more)

\* the transition is revealed in a bundle of the consignment, which comes with
\* the witness and the anchor of that bundle
RevealedIn(c, op) ==
    \E k \in 1..Len(c.bundles) :
        /\ c.bundles[k].witness_id = stash.history.witness[stash.history.bundle[op]]
        /\ c.bundles[k].anchor = stash.history.anchor[stash.history.bundle[op]]
        /\ \E b \in c.bundles[k].bundles :
              /\ b.bundle_id = stash.history.bundle[op]
              /\ op \in b.known_transitions

\* C13: ancestry closure: in every consignment returned, every operation that
\* owns a collected output, and every operation reachable from it by following
\* transition inputs, is the genesis or a transition revealed in a bundle of
\* the consignment that comes with its witness and anchor.
C13_AncestryClosure ==
    ConsignmentReturned =>
        \A op \in Ancestry(CollectedOps) :
            op = ConsignContract \/ RevealedIn(gres.v, op)

\* C13 witness: only an output of the last transition of a diamond is
\* collected; the consignment has the three transitions
C13_Witness ==
    /\ ConsignmentReturned
    /\ stash.history.inputs[13] = <<11, 12>>
    /\ stash.history.inputs[12] = <<11>>
    /\ CollectedOps = {13}
    /\ Ancestry(CollectedOps) = {ConsignContract, 11, 12, 13}

\* the assignments the scan of a collected output records: those of the owning
\* transition with a seal among the caller's secret seals, and the output's own
TerminalAssignments(o) ==
    { a \in Elements(TypedAssignments(o.op)) :
        \/ \E k \in 1..Len(secret_seals) : secret_seals[k] = SecretSeal(a)
        \/ (a.ty = o.ty /\ a.no = o.no) }

\* C14: terminal recording: in every consignment returned, for every collected
\* non-genesis output, the seal of every assignment of its owning transition
\* that is among the caller's secret seals, and the seal of the output's own
\* assignment, is a terminal seal under the bundle id of that transition, also
\* when several such assignments belong to one bundle.
C14_TerminalsRecorded ==
    ConsignmentReturned =>
        \A o \in Collected : o.op # ConsignContract =>
            \A a \in TerminalAssignments(o) :
                /\ stash.history.bundle[o.op] \in DOMAIN gres.v.terminals
                /\ SecretSeal(a) \in gres.v.terminals[stash.history.bundle[o.op]].seals

\* the collected non-genesis outputs whose own assignment has no revealed seal
\* in the stash and no seal among the caller's secret seals
ConcealedCollected ==
    { o \in Collected :
        /\ o.op # ConsignContract
        /\ o \in stash.concealed
        /\ \A k \in 1..Len(secret_seals) : secret_seals[k] # SecretSeal(o) }

\* C15: when a collected non-genesis output is concealed in the stash and its
\* seal is not among the caller's secret seals, consign returns no consignment:
\* it fails with ConcealedPublicState naming such an output, unless the stash
\* failed to answer before; and a returned consignment has no terminal seal of
\* a disclosed output that is still concealed in the stash.
C15_ConcealedPublicState ==
    ConsignDone =>
        /\ ConcealedCollected # {} =>
              \/ /\ gres.v.tag = "ConcealedPublicState"
                 /\ gres.v.opout \in ConcealedCollected
              \/ gres.v = [tag |-> "InventoryError", what |-> "Connectivity"]
        /\ gres.v.tag = "ConcealedPublicState" => gres.v.opout \in ConcealedCollected
        /\ gres.v.tag = "Consignment" =>
              \A b \in DOMAIN gres.v.terminals :
                  \A o \in stash.concealed :
                      SecretSeal(o) \in gres.v.terminals[b].seals
                          => \E k \in 1..Len(secret_seals) : secret_seals[k] = SecretSeal(o)

\* C15 witness: a public output is concealed in the stash, other outputs are
\* collected with it, and consign has failed with ConcealedPublicState for it
C15_Witness ==
    /\ ConsignDone
    /\ gres.v.tag = "ConcealedPublicState"
    /\ gres.v.opout \in stash.public
    /\ Cardinality(Collected) >= 3

\* C15 second witness: a concealed output is collected by its secret seal and
\* the consignment is returned with that seal as terminal
C15_WitnessSecret ==
    /\ ConsignmentReturned
    /\ \E o \in Collected \cap stash.concealed :
          SecretSeal(o) \in gres.v.terminals[stash.history.bundle[o.op]].seals

\* the bundles consign has collected when it comes to assemble the consignment
CollectedBundles == { stash.history.bundle[op] : op \in transitions }

\* two collected bundles of one witness for which the stash has recorded
\* anchors that disagree
Contradiction ==
    \E b1, b2 \in CollectedBundles :
        /\ stash.history.witness[b1] = stash.history.witness[b2]
        /\ stash.history.anchor[b1] # stash.history.anchor[b2]

\* C16: in every consignment returned no two bundled witnesses have the same
\* witness id, and every collected bundle is in the entry of its witness with
\* all that its bundled witness revealed; collected bundles of one witness
\* that contradict each other make consign fail with MergeReveal.
C16_OnePerWitness ==
    /\ ConsignmentReturned =>
          /\ \A j, k \in 1..Len(gres.v.bundles) :
                gres.v.bundles[j].witness_id = gres.v.bundles[k].witness_id => j = k
          /\ \A b \in DOMAIN bundled_witnesses :
                \E k \in 1..Len(gres.v.bundles) :
                    /\ gres.v.bundles[k].witness_id = bundled_witnesses[b].witness_id
                    /\ gres.v.bundles[k].anchor = bundled_witnesses[b].anchor
                    /\ bundled_witnesses[b].bundles \subseteq gres.v.bundles[k].bundles
          /\ ~Contradiction
    /\ (ConsignDone /\ gres.v.tag = "MergeReveal") => Contradiction

\* C16 witness: two bundles of one witness were collected and the consignment
\* has one bundled witness with both
C16_Witness ==
    /\ ConsignmentReturned
    /\ \E k \in 1..Len(gres.v.bundles) : Cardinality(gres.v.bundles[k].bundles) = 2
    /\ Len(gres.v.bundles) = 2

\* C16 second witness: the two bundles contradict each other
C16_WitnessContradiction ==
    /\ ConsignDone
    /\ gres.v.tag = "MergeReveal"

\* the witnesses of the bundles of the collected transitions and their ancestors
WitnessesNeeded ==
    { stash.history.witness[stash.history.bundle[op]] :
        op \in Ancestry(CollectedOps) \ {ConsignContract} }

\* the bundles of the transitions owning a collected output
TerminalBundles == { stash.history.bundle[op] : op \in CollectedOps }

\* consign came to hand its collections to the confined containers
Assembled ==
    /\ ConsignDone
    /\ gres.v.tag \in {"Consignment", "TooManyBundles", "TooManyTerminals"}

\* C17: confinement: once the collections are complete, more bundled witnesses
\* than the bundle ceiling give TooManyBundles, else more terminals than the
\* terminal ceiling give TooManyTerminals; a returned consignment has every
\* collected bundled witness and every collected terminal, never a part of them.
C17_Confinement ==
    Assembled =>
        /\ gres.v.tag = "TooManyBundles" <=> Cardinality(WitnessesNeeded) > BundleCeiling
        /\ gres.v.tag = "TooManyTerminals" <=>
              /\ Cardinality(WitnessesNeeded) <= BundleCeiling
              /\ Cardinality(TerminalBundles) > TerminalCeiling
        /\ gres.v.tag = "Consignment" =>
              /\ { gres.v.bundles[k].witness_id : k \in 1..Len(gres.v.bundles) }
                    = WitnessesNeeded
              /\ Len(gres.v.bundles) = Cardinality(WitnessesNeeded)
              /\ DOMAIN gres.v.terminals = TerminalBundles

\* C17 witness: a history of four witnesses is refused with TooManyBundles
C17_Witness ==
    /\ ConsignDone
    /\ gres.v.tag = "TooManyBundles"
    /\ Cardinality(WitnessesNeeded) = BundleCeiling + 1

\* C17 second witness: terminals in three bundles are refused
C17_WitnessTerminals ==
    /\ ConsignDone
    /\ gres.v.tag = "TooManyTerminals"
    /\ Cardinality(TerminalBundles) = TerminalCeiling + 1

\* C17 third witness: a consignment at both ceilings
C17_WitnessFull ==
    /\ ConsignmentReturned
    /\ Len(gres.v.bundles) = BundleCeiling
    /\ Cardinality(DOMAIN gres.v.terminals) = TerminalCeiling

\* the entry point has returned to its caller
EntryReturned == gpc = "done" /\ eres # None

\* the bundles of the transitions owning a public output of the stash
PublicBundles ==
    { stash.history.bundle[o.op] :
        o \in { p \in public_opouts(stash, ConsignContract) : p.op # ConsignContract } }

\* C18: export_contract gives consign empty output and secret seal lists and
\* returns its consignment with the transfer flag false; transfer gives it the
\* caller's lists and returns its consignment with the transfer flag true; an
\* error of consign is returned as it is.
C18_EntryPoints ==
    EntryReturned =>
        /\ entry = "export_contract" => (consign_outputs = << >> /\ secret_seals = << >>)
        /\ IF gres.v.tag = "Consignment"
           THEN /\ eres.v.tag = "Consignment"
                /\ eres.v.transfer = (entry = "transfer")
                /\ eres.v.genesis = gres.v.genesis
                /\ eres.v.bundles = gres.v.bundles
                /\ eres.v.terminals = gres.v.terminals
                /\ entry = "export_contract" => DOMAIN eres.v.terminals = PublicBundles
                /\ entry = "transfer" => DOMAIN eres.v.terminals = TerminalBundles
           ELSE eres = gres

\* C18 witness: an exported contract with a terminal, flag false
C18_Witness ==
    /\ EntryReturned
    /\ entry = "export_contract"
    /\ eres.v.tag = "Consignment"
    /\ ~eres.v.transfer
    /\ DOMAIN eres.v.terminals # {}

\* C18 second witness: a transfer of caller-supplied outputs and secret seals
C18_WitnessTransfer ==
    /\ EntryReturned
    /\ entry = "transfer"
    /\ consign_outputs # << >>
    /\ secret_seals # << >>
    /\ eres.v.tag = "Consignment"
    /\ eres.v.transfer
    /\ DOMAIN eres.v.terminals # PublicBundles

\* C18 third witness: transfer passes an error of consign on
C18_WitnessError ==
    /\ EntryReturned
    /\ entry = "transfer"
    /\ eres.v.tag = "TooManyBundles"

\* C18 fourth witness: export_contract passes an error of consign on
C18_WitnessExportError ==
    /\ EntryReturned
    /\ entry = "export_contract"
    /\ eres.v.tag # "Consignment"
    /\ eres = gres

(***************************************************************************)
(* Claims about two calls of consign                                       *)
(***************************************************************************)
\* both calls have returned and the storage answered each of its calls
BothReturned ==
    /\ gfirst.some
    /\ EntryReturned
    /\ ~ConsignRefused(eres.v)

\* C19: on an unchanged stash, two calls of consign whose output seal lists
\* and secret seal lists have the same elements, in any order and repeated
\* any number of times, return the same result: the same bundles and the
\* same terminals.
C19_OrderIndependent ==
    BothReturned => eres.v = gfirst.v.eres

\* C19 witness: two consignments with terminals, the two output seals named in
\* opposite orders
C19_Witness ==
    /\ BothReturned
    /\ eres.v.tag = "Consignment"
    /\ DOMAIN eres.v.terminals # {}
    /\ Len(consign_outputs) = 2
    /\ consign_outputs # gfirst.v.consign_outputs

\* C19 second witness: a secret seal named once and twice
C19_WitnessRepeated ==
    /\ BothReturned
    /\ eres.v.tag = "Consignment"
    /\ DOMAIN eres.v.terminals # {}
    /\ Len(secret_seals) # Len(gfirst.v.secret_seals)

(***************************************************************************)
(* Claims about merge-reveal                                               *)
(***************************************************************************)
\* the orders in which the elements of a sequence can be taken
Orders(sq) ==
    { [k \in 1..Len(sq) |-> sq[p[k]]] :
        p \in { q \in [1..Len(sq) -> 1..Len(sq)] :
                  \A j, k \in 1..Len(sq) : q[j] = q[k] => j = k } }

\* the partial reveals of a bundled witness: some of its bundles, each with
\* some of its transitions revealed
Partial(bw) ==
    { [bw EXCEPT !.bundles = B] :
        B \in { C \in SUBSET UNION { { Bundle(b.bundle_id, K) :
                                         K \in SUBSET b.known_transitions } :
                                       b \in bw.bundles } :
                  \A x, y \in C : x.bundle_id = y.bundle_id => x = y } }

BundleIdsOf(bw) == { b.bundle_id : b \in bw.bundles }

\* consign has collected every bundled witness of the consignment
WitnessesCollected ==
    /\ ConsignDone
    /\ gres.v.tag \in {"Consignment", "MergeReveal", "TooManyBundles", "TooManyTerminals"}

C20_WitnessContradiction ==
    /\ ConsignDone
    /\ gres.v.tag = "MergeReveal"
    /\ Cardinality(DOMAIN bundled_witnesses) = 3

\* C20 third witness: a collected bundle with two revealed transitions
C20_WitnessPartial ==
    /\ ConsignmentReturned
    /\ \E a \in DOMAIN bundled_witnesses :
          \E b \in bundled_witnesses[a].bundles : Cardinality(b.known_transitions) = 2

(***************************************************************************)
(* Claims about the inventory over several calls                           *)
(***************************************************************************)
\* what storage S knows, storage T knows as well and unchanged: every witness
\* with its anchor, every bundle under its contract and witness, every
\* revealed transition
KnownIn(S, T) ==
    /\ S.witnesses \subseteq T.witnesses
    /\ \A s \in S.bundles :
          \E t \in T.bundles :
              /\ t.bundle_id = s.bundle_id
              /\ t.contract_id = s.contract_id
              /\ t.witness_id = s.witness_id
              /\ s.known_transitions \subseteq t.known_transitions

Storage == [witnesses |-> witnesses, bundles |-> bundles]

C21_WitnessFailed ==
    /\ nconsumes = 2
    /\ cpc = "done"
    /\ cres.v.tag # "Ok"
    /\ pre.bundles # {}
    /\ pre.bundles \subseteq bundles

(***************************************************************************)
(* Claims about error tiers                                                *)
(***************************************************************************)
Tiers == {"Connectivity", "DataError", "InternalInconsistency"}

ConsumeFailed == cpc = "done" /\ cres.some /\ cres.v.tag # "Ok"

\* C22: every error consume returns is in one of the three tiers
\* Connectivity, DataError, InternalInconsistency, told by its variant; the
\* rejection of a fascia for a bundle that fails the consistency check is in
\* the DataError tier.
C22_ConsumeTiers ==
    ConsumeFailed =>
        /\ InventoryError_variant(cres.v) \in Tiers
        /\ cres.v.tag = "InvalidBundle" => InventoryError_variant(cres.v) = "DataError"

\* the case of C22: a rejected fascia
C22_Rejected ==
    /\ ConsumeFailed
    /\ cres.v.tag = "InvalidBundle"

ErrorReturned == epc = "returned"

\* C23: a failure of the height resolver reaches the caller in the
\* Connectivity tier.
C23_ResolverConnectivity ==
    (ErrorReturned /\ errs[1].type = "Box<dyn Error>") =>
        /\ Current.type = "InventoryError"
        /\ Current.variant = "Connectivity"

\* the case of C23: a resolver failure has been returned to the caller
C23_ResolverFailed ==
    /\ ErrorReturned
    /\ errs[1].type = "Box<dyn Error>"
    /\ Current.variant = "DataError"
    /\ Current.inner.variant = "HeightResolver"
    /\ Current.inner.inner = errs[1]

(***************************************************************************)
(* Claims about how compose_deterministic ends                             *)
(***************************************************************************)
\* the causes a ComposeError names: its own variants, and those of the errors
\* of the builder and of the inventory it wraps
Causes ==
    {"InvoiceExpired", "NoContract", "NoIface", "InsufficientState", "NoBeneficiaryOutput",
     "TooManyContracts", "NoBlankOrChange",
     "Connectivity", "NoIfaceImpl", "NoDefaultAssignment", "InvalidStateField"}

\* C24: compose_deterministic always returns: a Batch, or a ComposeError that
\* names its cause, for every invoice and every inventory.
C24_AlwaysReturns ==
    ComposeDone => (pres.v.tag = "Batch" \/ pres.v.tag \in Causes)

\* the case of C24: an invoice that asks for state that is neither an amount
\* nor an allocation has reached the fulfilment step
C24_OtherState ==
    /\ ComposeDone
    /\ invoice.owned_state.some
    /\ invoice.owned_state.v.kind = "Void"
    /\ pres.v.tag \notin Causes \cup {"Batch"}

(***************************************************************************)
(* Claims about the order of the steps of consume                          *)
(***************************************************************************)
\* storage bs after the bundles of the contracts cs of fascia f were folded
\* into it, in the order of cs
RECURSIVE FoldAll(_, _, _)
FoldAll(bs, f, cs) ==
    IF cs = << >> THEN bs
    ELSE FoldAll(consume_bundle(bs, Head(cs), f.bundles[Head(cs)].v, f.witness_id),
                 f, Tail(cs))

\* the contracts of the fascia below contract c, in increasing order
Before(f, c) == SortedSeq({ d \in fascia_contracts(f) : d < c })

\* the contracts of the fascia from contract c on, in increasing order
From(f, c) == SortedSeq({ d \in fascia_contracts(f) : d >= c })

AnchorRecorded == SealWitness(fascia.witness_id, fascia.anchor) \in witnesses

\* the bundles of the contracts below c, and no other, have been folded
FoldedBefore(c) == bundles = FoldAll(pre.bundles, fascia, Before(fascia, c))

\* C26: inside consume the anchor of the fascia is recorded before any bundle
\* is checked or folded; the bundles are checked and folded one at a time in
\* the order of the fascia (by contract id): while the loop runs, and when it
\* stops at a bundle, exactly the bundles before that bundle are folded; a
\* call that ends without the anchor recorded has folded no bundle and
\* returns an error.
C26_ConsumeOrder ==
    /\ cpc = "bundles" =>
          /\ AnchorRecorded
          /\ IF todo = << >>
             THEN bundles = FoldAll(pre.bundles, fascia, into_bundles(fascia))
             ELSE /\ todo = From(fascia, Head(todo))
                  /\ FoldedBefore(Head(todo))
    /\ ConsumeDone =>
          /\ ~AnchorRecorded => (bundles = pre.bundles /\ cres.v.tag # "Ok")
          /\ cres.v.tag = "Ok" =>
                /\ AnchorRecorded
                /\ bundles = FoldAll(pre.bundles, fascia, into_bundles(fascia))
          /\ cres.v.tag = "InvalidBundle" =>
                /\ AnchorRecorded
                /\ FoldedBefore(cres.v.contract_id)
          /\ (cres.v.tag = "Connectivity" /\ witnesses # pre.witnesses) =>
                \E c \in fascia_contracts(fascia) : FoldedBefore(c)

\* C26 witness: the loop stands between the two bundles of a fascia: the
\* anchor is new and recorded, the first bundle is folded, the second is not
C26_Witness ==
    /\ cpc = "bundles"
    /\ todo = <<2>>
    /\ fascia.bundles[1].some
    /\ AnchorRecorded
    /\ witnesses # pre.witnesses
    /\ bundles # pre.bundles
    /\ bundles # FoldAll(pre.bundles, fascia, into_bundles(fascia))

\* C26 second witness: recording the anchor failed
C26_WitnessAnchorFailed ==
    /\ ConsumeDone
    /\ cres.v.tag = "Connectivity"
    /\ ~AnchorRecorded
    /\ fascia_contracts(fascia) = {1, 2}
    /\ bundles = pre.bundles

\* C27: the conversion of a StashError into an InventoryError keeps the tier:
\* Connectivity stays Connectivity, InternalInconsistency stays
\* InternalInconsistency, wrapped as an inconsistency of the stash; the
\* conversion of an InventoryDataError keeps Connectivity and DataError, with
\* the wrapped error as it was.
C27_TierPreserved ==
    \A k \in 1..(Len(errs) - 1) :
        LET a == errs[k]
            b == errs[k + 1]
        IN  /\ a.type = "StashError" =>
                  /\ b.type = "InventoryError"
                  /\ b.variant = a.variant
                  /\ b.variant \in {"Connectivity", "InternalInconsistency"}
                  /\ a.variant = "Connectivity" => b.inner = into_E(a.inner)
                  /\ a.variant = "InternalInconsistency" =>
                        b.inner = ErrorValue("InventoryInconsistency", "Stash", a.inner)
            /\ a.type = "InventoryDataError" =>
                  /\ b.type = "InventoryError"
                  /\ b.variant = a.variant
                  /\ b.variant \in {"Connectivity", "DataError"}
                  /\ b.inner = a.inner

\* C27 witness: an inconsistency of the stash has reached the caller
C27_Witness ==
    /\ ErrorReturned
    /\ errs[1].type = "StashError"
    /\ errs[1].variant = "InternalInconsistency"
    /\ Current.variant = "InternalInconsistency"

\* C27 second witness: a connectivity error of the stash
C27_WitnessConnectivity ==
    /\ ErrorReturned
    /\ errs[1].type = "StashError"
    /\ errs[1].variant = "Connectivity"
    /\ Current.variant = "Connectivity"

\* C27 third witness: rejected content has gone through InventoryDataError
C27_WitnessData ==
    /\ ErrorReturned
    /\ Len(errs) = 3
    /\ errs[1].type = "validation::Status"
    /\ errs[2].type = "InventoryDataError"
    /\ Current.variant = "DataError"

\* C27 fourth witness: a connectivity error inside an InventoryDataError
C27_WitnessDataConnectivity ==
    /\ ErrorReturned
    /\ errs[1].type = "InventoryDataError"
    /\ errs[1].variant = "Connectivity"
    /\ Current.variant = "Connectivity"

(***************************************************************************)
(* Claims about the end of the backward traversal                          *)
(***************************************************************************)
\* consign has returned, and if it was not stopped by a failure of the
\* storage or of a reveal, its worklist is empty
TraversalOver ==
    /\ ConsignDone
    /\ gres.v.tag \notin {"InventoryError", "Reveal"} => ids = << >>

\* C28: the backward traversal of consign ends: on every history of the model
\* (all finite, and following inputs always reaches genesis) a worklist that
\* was started becomes empty and consign returns, also when transitions share
\* ancestors.
C28_TraversalTerminates ==
    (gpc = "ancestors") ~> TraversalOver

\* C28 witness: in the diamond history the traversal from transition 13 has
\* reached its end with both its ancestors revealed and the worklist empty
C28_Witness ==
    /\ ConsignmentReturned
    /\ stash.history = Diamond
    /\ CollectedOps = {13}
    /\ transitions = {11, 12, 13}
    /\ ids = << >>

\* C28 second witness: an ancestor shared by two transitions is on the
\* worklist twice
C28_WitnessShared ==
    /\ gpc = "ancestors"
    /\ \E j, k \in 1..Len(ids) : j < k /\ ids[j] = ids[k] /\ ids[j] # ConsignContract

(***************************************************************************)
(* Claims about what consume hands to storage                              *)
(***************************************************************************)
\* this step of consume hands the bundle at the head of the loop to
\* consume_bundle, which accepts it
Folds ==
    /\ cpc = "bundles"
    /\ todo # << >>
    /\ todo' = Tail(todo)

\* C29: consume hands to storage only bundles whose revealed transitions are
\* all named by their input map, and none that follows the first bundle of
\* the fascia that fails this; storage changes its bundles in no other step.
C29_OnlyCheckedBundles ==
    [][ /\ Folds => /\ ~BadBundle(fascia.bundles[Head(todo)].v)
                    /\ \A c \in BadContracts(fascia) : Head(todo) < c
        /\ bundles' # bundles => Folds ]_vars

\* C29 witness: the first bundle of the fascia fails the check, the second
\* would pass; consume has returned and storage has the bundles it had
C29_Witness ==
    /\ ConsumeDone
    /\ cres.v.tag = "InvalidBundle"
    /\ cres.v.contract_id = 1
    /\ fascia.bundles[2].some
    /\ ~BadBundle(fascia.bundles[2].v)
    /\ fascia.bundles[2].v.known_transitions # {}
    /\ bundles = pre.bundles

\* C29 second witness: a bundle that passes the check is folded, the next
\* fails it
C29_WitnessFolded ==
    /\ ConsumeDone
    /\ BadContracts(fascia) = {2}
    /\ fascia.bundles[1].some
    /\ fascia.bundles[1].v.known_transitions # {}
    /\ bundles = FoldAll(pre.bundles, fascia, <<1>>)
    /\ bundles # pre.bundles

(***************************************************************************)
(* Claims about the arguments of the blinding callback                     *)
(***************************************************************************)
\* the outputs of the main transition that carry state of another type than
\* the target type forward
CarriedOutputs == SelectSeq(MainOutputs, LAMBDA x : x.ty # assignment_id)

\* C30: a state item of the invoice's contract that is carried forward in the
\* main transition is re-blinded with the factor the blinding callback gives
\* for (contract id, assignment type of that item).
C30_BlinderArguments ==
    BatchReturned =>
        \A k \in 1..Len(CarriedOutputs) :
            CarriedOutputs[k].st.blinding
                = pedersen_blinder(invoice.contract.v, CarriedOutputs[k].ty)

\* the case of C30: a batch whose main transition carries a state item of
\* another type forward, the callback having been called for it
C30_CarriedForward ==
    /\ BatchReturned
    /\ Len(CarriedOutputs) > 0
    /\ \E k \in 1..Len(blind_calls) :
          blind_calls[k] = <<"pedersen_blinder", invoice.contract.v, assignment_id>>

(***************************************************************************)
(* Claims about the outputs of a non-fungible main transition              *)
(***************************************************************************)
\* the target-type data values the invoice's contract has on the candidate
\* previous outputs
TargetData ==
    { i \in OwnItems : i.opout.ty = assignment_id /\ i.st.kind = "Data" }

\* C31: in a batch returned for a non-fungible invoice the main transition
\* has exactly one output of the target assignment type, the requested
\* allocation at the beneficiary's seal, however many target-type data values
\* it consumes: every such value on the candidate outputs is an input, and
\* none but the requested allocation is an output.
C31_SingleTargetOutput ==
    (BatchReturned /\ DataInvoice) =>
        /\ Len(TargetOutputs) = 1
        /\ TargetOutputs[1].seal = beneficiary
        /\ TargetOutputs[1].st.kind = "Data"
        /\ TargetOutputs[1].st.value = invoice.owned_state.v.value
        /\ \A i \in TargetData :
              \E k \in 1..Len(MainInputs) :
                  MainInputs[k] = [opout |-> i.opout, st |-> i.st]
        /\ \A k \in 1..Len(MainOutputs) :
              (MainOutputs[k].ty = assignment_id)
                  => MainOutputs[k].st.value = invoice.owned_state.v.value

\* C31 witness: two target-type data values are consumed, one of them is not
\* the requested allocation, and the batch is returned
C31_Witness ==
    /\ BatchReturned /\ DataInvoice
    /\ Cardinality(TargetData) = 2
    /\ \E i \in TargetData : i.st.value # invoice.owned_state.v.value
    /\ Len(MainInputs) >= 2

\* C31 second witness: the only target-type value consumed is the one requested,
\* next to state of another type that is carried forward
C31_WitnessCarried ==
    /\ BatchReturned /\ DataInvoice
    /\ Cardinality(TargetData) = 1
    /\ Len(CarriedOutputs) > 0

(***************************************************************************)
(* Claims about the interface of a blank transition                        *)
(***************************************************************************)
\* what the last storage lookup was, and what it answered
LastLookup == lookups[Len(lookups)]

\* blank_builder was the last lookup made: it has just answered
BlankBuilderAnswered == lookups # << >> /\ LastLookup[1] = "blank_builder"

\* the interface with the smallest id among those implemented
SmallestId(S) == CHOOSE i \in S : \A j \in S : iface_id(i) <= iface_id(j)

\* C32: blank_builder takes the implementation of the requested interface when
\* the contract's schema has one, else the one with the smallest interface id
\* among those the schema has, and fails with NoIfaceImpl exactly when the
\* schema, once read, has no implementation at all.
C32_BlankInterface ==
    /\ (ppc = "blank" /\ blank_builder.inputs = << >>) =>
          /\ BlankBuilderAnswered
          /\ LastLookup[2].some
          /\ LET iimpls == LastLookup[2].v
                 iface  == invoice.iface.v
             IN  /\ iimpls # {}
                 /\ (iface \in iimpls) => blank_builder.iface = iface
                 /\ (iface \notin iimpls) => blank_builder.iface = SmallestId(iimpls)
    /\ (ppc = "done" /\ BlankBuilderAnswered) =>
          /\ pres.v.tag \in {"NoIfaceImpl", "Connectivity"}
          /\ (pres.v.tag = "NoIfaceImpl")
                <=> (LastLookup[2].some /\ LastLookup[2].v = {})

\* C32 witness: a batch is returned with a blank transition of a contract that
\* does not implement the invoice's interface; the blank is made under the
\* implemented interface that has the smallest id
C32_Witness ==
    /\ BatchReturned
    /\ \E k \in 1..Len(pres.v.blanks) :
          /\ pres.v.blanks[k].transition.iface # invoice.iface.v
          /\ pres.v.blanks[k].transition.iface = SmallestId({"IfaceC", "IfaceD"})

\* C32 second witness: the schema implements the requested interface, which
\* is not the one with the smallest id
C32_WitnessRequested ==
    /\ ppc = "blank" /\ blank_builder.inputs = << >>
    /\ blank_builder.iface = invoice.iface.v
    /\ blank_builder.iface # SmallestId(LastLookup[2].v)

\* C32 third witness: a schema without any implementation
C32_WitnessNoIfaceImpl ==
    /\ ppc = "done" /\ BlankBuilderAnswered
    /\ pres.v.tag = "NoIfaceImpl"

(***************************************************************************)
(* Claims about the RGB25 interface                                        *)
(***************************************************************************)
\* a builder was made for a transition the interface declares, and the
\* target assignment was looked for
Resolved ==
    /\ ires.some
    /\ ires.v.call = "assignment"
    /\ ires.v.result.tag # "panic"

\* the transition the builder of the last resolution was made for
ResolvedTransition ==
    LET operation == ires.v.args[1]
    IN  rgb25.transitions[IF operation.some THEN operation.v
                          ELSE rgb25.default_operation.v]

\* C33: the RGB25 interface is self-consistent: the default operation is a
\* declared transition; the default assignment of a transition, when it has
\* one, and the names of its inputs and assignments are declared assignments;
\* so an invoice that names neither operation nor assignment gets its target
\* assignment type resolved.
C33_SelfConsistent ==
    Resolved =>
        /\ rgb25.default_operation.some
              => rgb25.default_operation.v \in DOMAIN rgb25.transitions
        /\ ResolvedTransition.default_assignment.some
              => ResolvedTransition.default_assignment.v \in DOMAIN rgb25.assignments
        /\ DOMAIN ResolvedTransition.inputs \subseteq DOMAIN rgb25.assignments
        /\ DOMAIN ResolvedTransition.assignments \subseteq DOMAIN rgb25.assignments
        /\ (~ires.v.args[1].some /\ ~ires.v.args[2].some)
              => ires.v.result.tag = "Ok"

\* the case of C33: an invoice without operation and without assignment; the
\* builder of the default operation is asked for its default assignment
C33_DefaultResolved ==
    /\ Resolved
    /\ ires.v.args = <<None, None>>
    /\ ires.v.result = [tag |-> "InvalidStateField", name |-> "beneficiary"]

\* the accessors of the wrapper
Accessors ==
    {"name", "details", "precision", "total_issued_supply", "total_burned_supply",
     "contract_data"}

\* C34: on a contract that conforms to the RGB25 interface no accessor of the
\* wrapper fails: the global state fields the accessors require are declared
\* by the interface.
C34_AccessorsSucceed ==
    (ires.some /\ ires.v.call \in Accessors) => ires.v.result.tag = "Ok"

\* the case of C34: contract_data was called on a conforming contract
C34_ContractDataCalled ==
    /\ ires.some
    /\ ires.v.call = "contract_data"
    /\ global \in Globals
    /\ ires.v.result.tag = "panic"

====
